---- MODULE Spec2Model ----
(***************************************************************************)
(* Model of MediScanner-API: prescription extraction, records, sessions:   *)
(*   app/utils/image_processor.py  PrescriptionImageProcessor              *)
(*   app/routes/medical.py         extract_prescription_data               *)
(*   app/models/medical.py         Medicine, PrescriptionData              *)
(*   app/db/queries.py             PrescriptionQueries, UserSessionQueries *)
(*   app/routes/auth.py, app/utils/auth.py   register, login, logout,      *)
(*                                           tokens, current user          *)
(*                                                                         *)
(* Python values are tagged records.  A str that carries model output is a *)
(* sequence of characters (PyText); a JSON document inside such a text is  *)
(* one lexeme Doc(v) standing for the serialisation of the value v, or two *)
(* fragments DocLeft/DocRight of that serialisation.                       *)
(***************************************************************************)
EXTENDS Integers, Sequences, FiniteSets, TLC

VARIABLES
    call,               \* the extract_from_image call under way or last made
    req,                \* the upload requests: body, handler position and locals, response
    medical_records,    \* the documents of the medical_records collection, in insertion order
    user_sessions,      \* the documents of the user_sessions collection, in insertion order
    reply,              \* the answer to the last read or authentication request
    users,              \* the documents of the users collection, in insertion order
    reg,                \* the registration requests: body, handler position, response
    clock               \* datetime.utcnow(), in ticks of half a second

vars == <<call, req, medical_records, user_sessions, reply, users, reg, clock>>

\* What the upload endpoint and extract_from_image leave alone.
service == <<user_sessions, reply, users, reg, clock>>

\* What the session endpoints leave alone.
uploads == <<call, req, medical_records, users, reg>>

----------------------------------------------------------------------------
(* Python values *)

PyNone == [k |-> "none"]
PyStr(s) == [k |-> "str", s |-> s]
PyInt(n) == [k |-> "int", n |-> n]
PyFloat(t) == [k |-> "float", tenths |-> t]
PyList(items) == [k |-> "list", items |-> items]
PyDict(f) == [k |-> "dict", f |-> f]
PyText(t) == [k |-> "text", t |-> t]
PyObject(attrs) == [k |-> "object", attrs |-> attrs]

\* dict.get(key, default)
get(d, key, default) == IF key \in DOMAIN d.f THEN d.f[key] ELSE default

\* hasattr(o, name) for the attributes the code asks for
hasattr(o, name) == o.k = "object" /\ name \in DOMAIN o.attrs

\* bool(v)
truthy(v) ==
    CASE v.k = "none" -> FALSE
      [] v.k = "text" -> Len(v.t) > 0
      [] v.k = "str" -> v.s # ""
      [] v.k = "int" -> v.n # 0
      [] v.k = "float" -> v.tenths # 0
      [] v.k = "list" -> Len(v.items) > 0
      [] v.k = "dict" -> DOMAIN v.f # {}
      [] OTHER -> TRUE

\* a or b
or(a, b) == IF truthy(a) THEN a ELSE b

----------------------------------------------------------------------------
(* Texts: sequences of characters and JSON lexemes *)

Ch(c) == [ch |-> c]
Doc(v) == [doc |-> v]
\* The serialisation of v cut in two; mid: the cut falls inside a token.
DocLeft(v, mid) == [left |-> v, mid |-> mid]
DocRight(v, mid) == [right |-> v, mid |-> mid]

IsDoc(c) == DOMAIN c = {"doc"}
IsLeft(c) == "left" \in DOMAIN c
IsRight(c) == "right" \in DOMAIN c

Whitespace == {Ch("\n"), Ch(" ")}

RECURSIVE lstrip(_)
lstrip(t) == IF t # <<>> /\ Head(t) \in Whitespace THEN lstrip(Tail(t)) ELSE t

RECURSIVE rstrip(_)
rstrip(t) ==
    IF t # <<>> /\ t[Len(t)] \in Whitespace THEN rstrip(SubSeq(t, 1, Len(t) - 1)) ELSE t

\* str.strip()
strip(t) == rstrip(lstrip(t))

startswith(t, p) == Len(t) >= Len(p) /\ SubSeq(t, 1, Len(p)) = p
endswith(t, p) == Len(t) >= Len(p) /\ SubSeq(t, Len(t) - Len(p) + 1, Len(t)) = p

\* The backquote character of a markdown code fence.
Backquote == Ch("backquote")

Backticks == <<Backquote, Backquote, Backquote>>
BackticksJson == Backticks \o <<Ch("j"), Ch("s"), Ch("o"), Ch("n")>>

\* CleanMarkdown that knows the json-tagged opening fence alone.
CleanMarkdown_TaggedOnly(extracted_text) ==
    LET a == IF startswith(extracted_text, BackticksJson)
             THEN SubSeq(extracted_text, 8, Len(extracted_text))
             ELSE extracted_text
        c == IF endswith(a, Backticks) THEN SubSeq(a, 1, Len(a) - 3) ELSE a
    IN strip(c)

\* "Clean up markdown formatting"
CleanMarkdown(extracted_text) ==
    LET a == IF startswith(extracted_text, BackticksJson)
             THEN SubSeq(extracted_text, 8, Len(extracted_text))
             ELSE extracted_text
        b == IF startswith(a, Backticks) THEN SubSeq(a, 4, Len(a)) ELSE a
        c == IF endswith(b, Backticks) THEN SubSeq(b, 1, Len(b) - 3) ELSE b
    IN strip(c)

\* json.loads: one document, surrounded by optional whitespace.  Two fragments
\* of one document form it when they are adjacent, or separated by whitespace
\* only where the cut falls between two tokens; a line break inside a token
\* (a string literal, a number) is a JSONDecodeError.
\* An exception of type exc in place of a value.
Raise(exc) == [ok |-> FALSE, exc |-> exc]

JSONDecodeError == Raise("JSONDecodeError")

json_loads(text) ==
    LET s == strip(text)
        n == Len(s)
    IN  IF n = 1 /\ IsDoc(s[1]) THEN [ok |-> TRUE, value |-> s[1].doc]
        ELSE IF /\ n >= 2
                /\ IsLeft(s[1]) /\ IsRight(s[n])
                /\ s[1].left = s[n].right
                /\ s[1].mid = s[n].mid
                /\ \A i \in 2..(n - 1) : s[i] \in Whitespace
                /\ (s[1].mid => n = 2)
             THEN [ok |-> TRUE, value |-> s[1].left]
             ELSE JSONDecodeError

----------------------------------------------------------------------------
(* extract_from_image: unwrapping the response of chat.completions.create *)

\* str(v), for the values the text-like keys of a part or a mapping carry here
str(v) ==
    CASE v.k = "text" -> v.t
      [] v.k = "int" -> <<Doc(v)>>

\* "\n".join(parts)
RECURSIVE join(_)
join(parts) ==
    IF parts = <<>> THEN <<>>
    ELSE IF Len(parts) = 1 THEN parts[1]
    ELSE parts[1] \o <<Ch("\n")>> \o join(Tail(parts))

\* response.choices[0] of an SDK object, response.get("choices")[0] of a
\* mapping, None otherwise; raised: len() or [0] of a value that has none.
FirstChoice(response) ==
    IF hasattr(response, "choices") /\ response.attrs.choices.k # "list"
    THEN [raised |-> TRUE]
    ELSE IF hasattr(response, "choices") /\ Len(response.attrs.choices.items) > 0
    THEN [raised |-> FALSE, choice |-> response.attrs.choices.items[1]]
    ELSE IF response.k = "dict" /\ truthy(get(response, "choices", PyNone))
    THEN LET choices == get(response, "choices", PyNone)
         IN  IF choices.k = "list"
             THEN [raised |-> FALSE, choice |-> choices.items[1]]
             ELSE [raised |-> TRUE]
    ELSE [raised |-> FALSE, choice |-> PyNone]

\* the content of the first choice
ChoiceContent(choice) ==
    IF choice = PyNone THEN PyNone
    ELSE IF hasattr(choice, "message") /\ hasattr(choice.attrs.message, "content")
    THEN choice.attrs.message.attrs.content
    ELSE IF choice.k = "dict"
    THEN LET msg == or(get(choice, "message", PyNone), PyDict(<<>>))
         IN  IF msg.k = "dict" /\ get(msg, "content", PyNone) # PyNone
             THEN get(msg, "content", PyNone)
             ELSE or(get(choice, "text", PyNone), get(choice, "content", PyNone))
    ELSE PyNone

\* part.get("text") or part.get("value") or part.get("content") or ""
TextLike(d) ==
    or(or(or(get(d, "text", PyNone), get(d, "value", PyNone)),
          get(d, "content", PyNone)),
       PyText(<<>>))

\* Parts that takes the str parts alone.
RECURSIVE Parts_StringsOnly(_)
Parts_StringsOnly(content) ==
    IF content = <<>> THEN <<>>
    ELSE IF Head(content).k = "text"
    THEN <<Head(content).t>> \o Parts_StringsOnly(Tail(content))
    ELSE Parts_StringsOnly(Tail(content))

\* the parts list built from a list content: a str part as it is, a mapping
\* part by its text-like key, any other part skipped
RECURSIVE Parts(_)
Parts(content) ==
    IF content = <<>> THEN <<>>
    ELSE LET part == Head(content)
             rest == Parts(Tail(content))
         IN  IF part.k = "text" THEN <<part.t>> \o rest
             ELSE IF part.k = "dict" THEN <<str(TextLike(part))>> \o rest
             ELSE rest

\* [p for p in parts if p]
NonEmpty(parts) == SelectSeq(parts, LAMBDA p : p # <<>>)

\* ContentText that falls back on the repr of the content.
ContentText_Repr(content) ==
    CASE content.k = "text" -> strip(content.t)
      [] content.k = "list" -> strip(join(NonEmpty(Parts(content.items))))
      [] content.k = "dict" ->
            LET t == TextLike(content)
            IN  IF t.k = "text" THEN strip(t.t) ELSE str(t)
      [] OTHER -> <<Ch("x")>>

\* extracted_text from the content
ContentText(content) ==
    CASE content.k = "text" -> strip(content.t)
      [] content.k = "list" -> strip(join(NonEmpty(Parts(content.items))))
      [] content.k = "dict" ->
            LET t == TextLike(content)
            IN  IF t.k = "text" THEN strip(t.t) ELSE str(t)
      [] OTHER -> <<>>

\* The inner try block: any exception while unwrapping leaves the empty text.
ExtractText(response) ==
    LET first == FirstChoice(response)
    IN  IF first.raised THEN <<>> ELSE ContentText(ChoiceContent(first.choice))

----------------------------------------------------------------------------
(* app/models/medical.py: field validation of Medicine and PrescriptionData *)

ValidationError == Raise("ValidationError")
Valid(v) == [ok |-> TRUE, value |-> v]

\* The decimal strings among the strings of the model, with their values.
IntLiteral == ("42" :> 42) @@ ("-1" :> -1)

\* Optional[str]: None or a str; nothing is converted to a str
OptionalStr(v) ==
    CASE v.k = "none" -> Valid(v)
      [] v.k = "str" -> Valid(v)
      [] OTHER -> ValidationError

\* Optional[int]: None, an int, a float without fractional part, a decimal str
OptionalInt(v) ==
    CASE v.k = "none" -> Valid(v)
      [] v.k = "int" -> Valid(v)
      [] v.k = "float" ->
            IF v.tenths % 10 = 0 THEN Valid(PyInt(v.tenths \div 10)) ELSE ValidationError
      [] v.k = "str" ->
            IF v.s \in DOMAIN IntLiteral THEN Valid(PyInt(IntLiteral[v.s]))
            ELSE ValidationError
      [] OTHER -> ValidationError

\* Optional[float]: None, a float, an int, a decimal str
OptionalFloat(v) ==
    CASE v.k = "none" -> Valid(v)
      [] v.k = "float" -> Valid(v)
      [] v.k = "int" -> Valid(PyFloat(v.n * 10))
      [] v.k = "str" ->
            IF v.s \in DOMAIN IntLiteral THEN Valid(PyFloat(IntLiteral[v.s] * 10))
            ELSE ValidationError
      [] OTHER -> ValidationError

\* Medicine(id=..., name=..., quantity=..., timeOfIntake=..., beforeOrAfterMeals=...)
Medicine(id, name, quantity, timeOfIntake, beforeOrAfterMeals) ==
    LET n == OptionalStr(name)
        q == OptionalInt(quantity)
        t == OptionalStr(timeOfIntake)
        b == OptionalStr(beforeOrAfterMeals)
    IN  IF n.ok /\ q.ok /\ t.ok /\ b.ok
        THEN Valid([id |-> id, name |-> n.value, quantity |-> q.value,
                    timeOfIntake |-> t.value, beforeOrAfterMeals |-> b.value])
        ELSE ValidationError

ScalarFields ==
    {"patientName", "age", "weight", "height", "temperature",
     "hospitalName", "doctorName", "date"}

\* The validator of each scalar field of PrescriptionData.
FieldValidator(field, v) ==
    CASE field = "age" -> OptionalInt(v)
      [] field \in {"weight", "height", "temperature"} -> OptionalFloat(v)
      [] OTHER -> OptionalStr(v)

\* PrescriptionData(patientName=..., ..., medicines=..., reportImages=...):
\* id, userId, serialNo, createdAt and updatedAt take their default None.
PrescriptionData(scalars, medicines, reportImages) ==
    IF \A f \in ScalarFields : FieldValidator(f, scalars[f]).ok
    THEN Valid([id |-> PyNone, userId |-> PyNone, serialNo |-> PyNone,
                patientName |-> FieldValidator("patientName", scalars.patientName).value,
                age |-> FieldValidator("age", scalars.age).value,
                weight |-> FieldValidator("weight", scalars.weight).value,
                height |-> FieldValidator("height", scalars.height).value,
                temperature |-> FieldValidator("temperature", scalars.temperature).value,
                hospitalName |-> FieldValidator("hospitalName", scalars.hospitalName).value,
                doctorName |-> FieldValidator("doctorName", scalars.doctorName).value,
                date |-> FieldValidator("date", scalars.date).value,
                medicines |-> medicines,
                reportImages |-> reportImages,
                createdAt |-> PyNone, updatedAt |-> PyNone])
    ELSE ValidationError

----------------------------------------------------------------------------
(* extract_from_image: mapping the parsed output into a PrescriptionData *)

\* _create_empty_prescription
_create_empty_prescription(image_filename) ==
    PrescriptionData([f \in ScalarFields |-> PyNone], <<>>, <<image_filename>>).value

\* The entries enumerate() yields for the medicines value: the items of a list,
\* the characters of a str, the keys of a dict; TypeError for None or a number.
Entries(v) ==
    CASE v.k = "list" -> Valid(v.items)
      [] v.k = "str" -> Valid(IF v.s = "" THEN <<>> ELSE <<PyStr(v.s)>>)
      [] v.k = "dict" -> Valid(IF DOMAIN v.f = {} THEN <<>> ELSE <<PyStr("key")>>)
      [] OTHER -> Raise("TypeError")

\* MedicineAt that keeps the id an entry brings.
MedicineAt_KeepsId(idx, med) ==
    IF med.k # "dict" THEN Raise("AttributeError")
    ELSE Medicine(IF "id" \in DOMAIN med.f /\ med.f.id.k = "str" THEN med.f.id.s
                  ELSE "med_" \o ToString(idx + 1),
                  get(med, "name", PyNone),
                  get(med, "quantity", PyNone),
                  get(med, "timeOfIntake", PyNone),
                  get(med, "beforeOrAfterMeals", PyNone))

\* Medicine(id=f"med_{idx + 1}", name=med.get("name"), ...) of the entry at
\* position idx (0-based); med.get of an entry that is no mapping raises.
MedicineAt(idx, med) ==
    IF med.k # "dict" THEN Raise("AttributeError")
    ELSE Medicine("med_" \o ToString(idx + 1),
                  get(med, "name", PyNone),
                  get(med, "quantity", PyNone),
                  get(med, "timeOfIntake", PyNone),
                  get(med, "beforeOrAfterMeals", PyNone))

\* The loop over enumerate(extracted_data.get("medicines", []))
Medicines(extracted_data) ==
    LET entries == Entries(get(extracted_data, "medicines", PyList(<<>>)))
    IN  IF ~entries.ok THEN entries
        ELSE IF \E i \in 1..Len(entries.value) : ~MedicineAt(i - 1, entries.value[i]).ok
        THEN LET i == CHOOSE j \in 1..Len(entries.value) :
                          /\ ~MedicineAt(j - 1, entries.value[j]).ok
                          /\ \A h \in 1..(j - 1) : MedicineAt(h - 1, entries.value[h]).ok
             IN  MedicineAt(i - 1, entries.value[i])
        ELSE Valid([i \in 1..Len(entries.value) |->
                        MedicineAt(i - 1, entries.value[i]).value])

\* BuildPrescription with hospitalName and doctorName taken from each other's key.
BuildPrescription_Swapped(extracted_data, image_filename) ==
    IF extracted_data.k # "dict" THEN Raise("AttributeError")
    ELSE LET medicines == Medicines(extracted_data)
             swapped == [f \in ScalarFields |->
                            CASE f = "hospitalName" -> "doctorName"
                              [] f = "doctorName" -> "hospitalName"
                              [] OTHER -> f]
         IN  IF ~medicines.ok THEN medicines
             ELSE PrescriptionData(
                      [f \in ScalarFields |-> get(extracted_data, swapped[f], PyNone)],
                      medicines.value, <<image_filename>>)

\* From json.loads' value to the record; extracted_data.get of a value that
\* is no mapping raises.
BuildPrescription(extracted_data, image_filename) ==
    IF extracted_data.k # "dict" THEN Raise("AttributeError")
    ELSE LET medicines == Medicines(extracted_data)
         IN  IF ~medicines.ok THEN medicines
             ELSE PrescriptionData(
                      [f \in ScalarFields |-> get(extracted_data, f, PyNone)],
                      medicines.value, <<image_filename>>)

\* The outcome of client.chat.completions.create: it raises, or returns a response.
\* The exceptions chat.completions.create raises: an error of the SDK, or
\* the json.JSONDecodeError of a response body it cannot decode.
CallErrors == {"APIError", "JSONDecodeError"}
CallRaisesWith(exc) == [raises |-> TRUE, exc |-> exc]
CallRaises == CallRaisesWith("APIError")
Returns(response) == [raises |-> FALSE, response |-> response]

\* The try block of extract_from_image from the clean-up of the extracted
\* text on: the record, or the exception that leaves the block.
ParseAndBuild(extracted_text, image_filename) ==
    LET extracted_data == json_loads(CleanMarkdown(extracted_text))
    IN  IF ~extracted_data.ok THEN extracted_data
        ELSE BuildPrescription(extracted_data.value, image_filename)

\* An exception that leaves the try block before line 157 has bound
\* extracted_text.
RaiseUnbound(exc) == [ok |-> FALSE, exc |-> exc, unbound |-> {"extracted_text"}]
Unbound(body) == IF "unbound" \in DOMAIN body THEN body.unbound ELSE {}

\* The whole try block.
TryExtract(outcome, image_filename) ==
    IF outcome.raises THEN RaiseUnbound(outcome.exc)
    ELSE ParseAndBuild(ExtractText(outcome.response), image_filename)

\* What a call gives its caller: a returned value, or an exception.
Return(v) == [raised |-> FALSE, value |-> v]
Propagate(exc) == [raised |-> TRUE, exc |-> exc]

\* The two except clauses of extract_from_image: both return the empty
\* prescription, the first after printing extracted_text (line 230), which
\* raises UnboundLocalError out of the function when the name is not bound.
Handle(body, image_filename) ==
    IF body.ok THEN Return(body.value)
    ELSE IF body.exc = "JSONDecodeError"
    THEN IF "extracted_text" \in Unbound(body)
         THEN Propagate("UnboundLocalError")
         ELSE Return(_create_empty_prescription(image_filename))
    ELSE Return(_create_empty_prescription(image_filename))

\* extract_from_image(image_bytes, image_filename), given the outcome of the
\* model call made for the image
extract_from_image(outcome, image_filename) ==
    Handle(TryExtract(outcome, image_filename), image_filename)

----------------------------------------------------------------------------
(* The inputs of the extraction: model outputs and responses *)

\* File names, as the characters of the str.
RxJpg == <<"r", "x", "1", ".", "j", "p", "g">>
RxPng == <<"r", "x", "2", ".", "P", "N", "G">>

\* The values a model output carries under a scalar key.
ScalarValues ==
    {PyNone, PyStr("Asha"), PyStr("42"), PyInt(42), PyFloat(986), PyFloat(420),
     PyList(<<>>)}

GoodMedicine ==
    PyDict([name |-> PyStr("Amox"), quantity |-> PyInt(10),
            timeOfIntake |-> PyStr("Morning"), beforeOrAfterMeals |-> PyStr("After Meals")])

\* A medicine entry to which the model gave an id of its own.
MedicineWithId ==
    PyDict([id |-> PyStr("med_9"), name |-> PyStr("Para"), quantity |-> PyNone])

MedicinesValues ==
    {PyNone, PyInt(3), PyStr(""), PyStr("Amox"), PyDict(<<>>), PyDict([name |-> PyStr("Amox")]),
     PyList(<<>>), PyList(<<GoodMedicine>>),
     PyList(<<MedicineWithId, GoodMedicine>>),
     PyList(<<GoodMedicine, MedicineWithId, GoodMedicine>>),
     PyList(<<GoodMedicine, PyInt(1)>>),
     PyList(<<PyStr("Amox")>>),
     PyList(<<GoodMedicine, PyDict([name |-> PyStr("Para"), quantity |-> PyStr("two")])>>),
     PyList(<<PyDict([name |-> PyStr("Para"), quantity |-> PyInt(-1)])>>),
     PyList(<<PyDict([name |-> PyInt(42)])>>)}

GoodFields ==
    [patientName |-> PyStr("Asha"), age |-> PyInt(42), weight |-> PyFloat(705),
     height |-> PyFloat(1700), temperature |-> PyFloat(986),
     hospitalName |-> PyStr("City"), doctorName |-> PyStr("Rao"),
     date |-> PyStr("2024-01-05"), medicines |-> PyList(<<GoodMedicine>>)]

\* f without the key
Without(f, key) == [x \in DOMAIN f \ {key} |-> f[x]]

\* The JSON documents of the model: objects that differ from GoodFields in
\* one key, the empty object, and documents that are no object.
Documents ==
    {PyDict([GoodFields EXCEPT ![f] = v]) : f \in ScalarFields, v \in ScalarValues}
        \cup {PyDict([GoodFields EXCEPT !.medicines = m]) : m \in MedicinesValues}
        \cup {PyDict(Without(GoodFields, key)) : key \in DOMAIN GoodFields}
        \cup {PyDict(<<>>), PyDict([patientName |-> PyStr("Asha")])}
        \cup {PyNone, PyInt(5), PyStr("Asha"), PyList(<<>>), PyList(<<PyDict(GoodFields)>>)}

\* A markdown code fence around a text.
fences == {"none", "plain", "json", "plain_lines", "json_lines"}

Fenced(fence, t) ==
    CASE fence = "none" -> t
      [] fence = "plain" -> Backticks \o t \o Backticks
      [] fence = "json" -> BackticksJson \o t \o Backticks
      [] fence = "plain_lines" -> Backticks \o <<Ch("\n")>> \o t \o <<Ch("\n")>> \o Backticks
      [] fence = "json_lines" -> BackticksJson \o <<Ch("\n")>> \o t \o <<Ch("\n")>> \o Backticks

\* Texts that are no single JSON document.
OtherTexts ==
    LET d == Doc(PyDict(GoodFields))
    IN  {<<>>, <<Ch("x")>>, <<Ch(" ")>>, <<d, Ch("x")>>, <<Ch("x"), d>>,
         <<Ch("j"), Ch("s"), Ch("o"), Ch("n"), d>>,
         <<Ch("j"), Ch("s"), Ch("o"), Ch("n"), Ch("\n"), d>>,
         <<d>> \o Backticks,
         Backticks \o <<d>>,
         <<Backquote, d, Backquote>>,
         Fenced("json", <<d>>),
         Fenced("plain_lines", <<d>>),
         <<DocLeft(PyDict(GoodFields), TRUE)>>,
         <<DocRight(PyDict(GoodFields), FALSE)>>}

\* The texts a model returns.
Texts ==
    {<<Doc(d)>> : d \in Documents}
        \cup {<<Ch(" "), Doc(PyDict(GoodFields)), Ch("\n")>>}
        \cup OtherTexts

\* The shapes in which a response carries a text: the content of the message.
forms ==
    {"str", "part_text", "part_value", "part_str", "parts_padded", "dict_text",
     "dict_content", "split_between", "split_inside"}

IsDocument(t) == Len(t) = 1 /\ IsDoc(t[1])

\* The forms a text can take: only a JSON document is cut in two parts.
FormsOf(t) == IF IsDocument(t) THEN forms ELSE forms \ {"split_between", "split_inside"}

Content(form, t) ==
    CASE form = "str" -> PyText(t)
      [] form = "part_text" -> PyList(<<PyDict([text |-> PyText(t)])>>)
      [] form = "part_value" -> PyList(<<PyDict([type |-> PyText(<<>>), value |-> PyText(t)])>>)
      [] form = "part_str" -> PyList(<<PyText(t)>>)
      [] form = "parts_padded" ->
            PyList(<<PyText(<<>>), PyInt(7), PyDict([text |-> PyText(t)]), PyDict(<<>>)>>)
      [] form = "dict_text" -> PyDict([text |-> PyText(t)])
      [] form = "dict_content" -> PyDict([content |-> PyText(t)])
      [] form = "split_between" ->
            PyList(<<PyText(<<DocLeft(t[1].doc, FALSE)>>),
                     PyDict([text |-> PyText(<<DocRight(t[1].doc, FALSE)>>)])>>)
      [] form = "split_inside" ->
            PyList(<<PyDict([text |-> PyText(<<DocLeft(t[1].doc, TRUE)>>)]),
                     PyDict([text |-> PyText(<<DocRight(t[1].doc, TRUE)>>)])>>)

\* The shapes of a response around the content.
shapes == {"sdk", "mapping", "mapping_text", "mapping_content"}

Response(shape, content) ==
    CASE shape = "sdk" ->
            PyObject([choices |->
                PyList(<<PyObject([message |-> PyObject([content |-> content])])>>)])
      [] shape = "mapping" ->
            PyDict([choices |->
                PyList(<<PyDict([message |-> PyDict([content |-> content])])>>)])
      [] shape = "mapping_text" ->
            PyDict([choices |-> PyList(<<PyDict([text |-> content])>>)])
      [] shape = "mapping_content" ->
            PyDict([choices |-> PyList(<<PyDict([content |-> content])>>)])

\* Responses of none of the known shapes.
UnknownResponses ==
    {PyNone,
     PyText(<<Doc(PyDict(GoodFields))>>),
     PyObject([id |-> PyStr("r1")]),
     PyObject([choices |-> PyList(<<>>)]),
     PyObject([choices |-> PyNone]),
     PyObject([choices |-> PyList(<<PyNone>>)]),
     PyObject([choices |-> PyList(<<PyObject([index |-> PyInt(0)])>>)]),
     PyObject([choices |-> PyList(<<PyObject([message |-> PyNone])>>)]),
     PyObject([choices |-> PyList(<<PyObject([message |-> PyObject([role |-> PyStr("a")])])>>)]),
     PyDict(<<>>),
     PyDict([choices |-> PyList(<<>>)]),
     PyDict([choices |-> PyInt(1)]),
     PyDict([choices |-> PyList(<<PyDict(<<>>)>>)]),
     PyDict([choices |-> PyList(<<PyDict([message |-> PyDict([role |-> PyStr("a")])])>>)])}
        \cup {Response(s, c) : s \in shapes, c \in {PyNone, PyInt(5), PyFloat(15)}}

----------------------------------------------------------------------------
(* app/routes/medical.py: the upload endpoint extract_prescription_data *)

\* The longest fileDetails list of a request.
MaxImages == 2

\* The upload requests of a behaviour.
Requests == {1}

Users == {"u1", "u2"}

\* str.lower() of a character
lower(c) ==
    CASE c = "P" -> "p"
      [] c = "N" -> "n"
      [] c = "G" -> "g"
      [] OTHER -> c

\* s.split('.')[-1]: the characters after the last dot, all of s without one
RECURSIVE LastSegment(_)
LastSegment(s) ==
    IF \A i \in 1..Len(s) : s[i] # "." THEN s
    ELSE LastSegment(Tail(s))

\* name.lower().split('.')[-1]
Extension(name) == LastSegment([i \in 1..Len(name) |-> lower(name[i])])

allowed_extensions ==
    {<<".", "j", "p", "g">>, <<".", "j", "p", "e", "g">>, <<".", "p", "n", "g">>,
     <<".", "g", "i", "f">>, <<".", "w", "e", "b", "p">>}

\* '.' + file_detail.name.lower().split('.')[-1] in allowed_extensions
AllowedName(name) == (<<".">> \o Extension(name)) \in allowed_extensions

\* The (url, fileId, name) entries requests carry.
FileDetail(url, fileId, name) == [url |-> url, fileId |-> fileId, name |-> name]

UrlJpg == <<"h", "/", "1", ".", "j", "p", "g">>
UrlPng == <<"h", "/", "2", ".", "p", "n", "g">>
UrlExe == <<"h", "/", "3", ".", "e", "x", "e">>
ScanExe == <<"s", ".", "e", "x", "e">>

FileDetails ==
    {FileDetail(UrlJpg, "f1", RxJpg),
     FileDetail(UrlExe, "f2", RxPng),
     FileDetail(UrlPng, "f3", ScanExe)}

\* The sequences over S of at most n entries.
SeqUpTo(S, n) == UNION {[1..k -> S] : k \in 0..n}

\* The prescriptionUrls sent along with a fileDetails list: the urls of the
\* list, no url, or one url.
UrlsOf(fileDetails) == [i \in 1..Len(fileDetails) |-> fileDetails[i].url]

Bodies ==
    {[prescriptionUrls |-> urls, fileDetails |-> fds] :
        fds \in SeqUpTo(FileDetails, MaxImages),
        urls \in {<<>>, <<UrlJpg>>}}
    \cup {[prescriptionUrls |-> UrlsOf(fds), fileDetails |-> fds] :
            fds \in SeqUpTo(FileDetails, MaxImages)}

\* HTTPException(status_code, detail) as the response of a request
HTTPException(status_code, detail) == [status_code |-> status_code, detail |-> detail]

\* The outcomes of the model call in a batch: it raises, it returns an
\* object, it returns a text that is no JSON.
GoodResponse == Response("sdk", PyText(Fenced("json_lines", <<Doc(PyDict(GoodFields))>>)))
BatchOutcomes ==
    {CallRaisesWith(exc) : exc \in CallErrors}
    \cup {Returns(GoodResponse), Returns(Response("sdk", PyText(<<Ch("x")>>)))}

\* The requests in flight at once: the handler is a coroutine, and the
\* server takes a second request while the first awaits.
Uploads == {1, 2}

NoRequest == [pc |-> "idle"]

NoCall == [pc |-> "idle"]

NoReply == [op |-> "none"]

\* The registration requests of a behaviour.
Registrations == {1, 2}

NoRegistration == [pc |-> "idle"]

\* Receive without the check of lines 21-25: an empty prescriptionUrls list
\* goes on to the extension check and to the download loop.
Receive_NoEmptyCheck(r) ==
    /\ UNCHANGED <<call, medical_records, service>>
    /\ req[r].pc = "idle"
    /\ \E body \in Bodies, user \in Users :
        LET invalid == {i \in 1..Len(body.fileDetails) : ~AllowedName(body.fileDetails[i].name)}
            begun == [pc |-> "fetch", request |-> body, current_user |-> user,
                      image_data |-> <<>>, fetched |-> <<>>, model_calls |-> 0,
                      model_log |-> <<>>, model_outcomes |-> <<>>,
                      prescriptions |-> <<>>, saved_prescriptions |-> <<>>]
        IN  req' = [req EXCEPT ![r] =
                IF invalid # {}
                THEN [begun EXCEPT !.pc = "done"] @@
                     [response |-> HTTPException(400, [msg |-> "Invalid file type"])]
                ELSE begun]

\* The handler up to its first await: the two validations, then the
\* construction of the processor and of the empty image_data.
Receive(r) ==
    /\ UNCHANGED <<call, medical_records, service>>
    /\ req[r].pc = "idle"
    /\ \E body \in Bodies, user \in Users :
        LET invalid == {i \in 1..Len(body.fileDetails) : ~AllowedName(body.fileDetails[i].name)}
            begun == [pc |-> "fetch", request |-> body, current_user |-> user,
                      image_data |-> <<>>, fetched |-> <<>>, model_calls |-> 0,
                      model_log |-> <<>>, model_outcomes |-> <<>>,
                      prescriptions |-> <<>>, saved_prescriptions |-> <<>>]
        IN  req' = [req EXCEPT ![r] =
                IF Len(body.prescriptionUrls) = 0
                THEN [begun EXCEPT !.pc = "done"] @@
                     [response |-> HTTPException(400, [msg |-> "No prescription URLs provided"])]
                ELSE IF invalid # {}
                THEN LET i == CHOOSE i \in invalid : \A j \in invalid : i <= j
                     IN  [begun EXCEPT !.pc = "done"] @@
                         [response |-> HTTPException(400,
                             [msg |-> "Invalid file type", name |-> body.fileDetails[i].name])]
                ELSE begun]

\* Fetch with the failed download skipped: the handler goes on to process
\* the images it has.
Fetch_DefersFailure(r) ==
    /\ UNCHANGED <<call, medical_records, service>>
    /\ req[r].pc = "fetch"
    /\ Len(req[r].image_data) < Len(req[r].request.fileDetails)
    /\ LET file_detail == req[r].request.fileDetails[Len(req[r].image_data) + 1]
           asked == [req[r] EXCEPT !.fetched = Append(@, file_detail.url)]
       IN  \E image_bytes \in {"bytes1", "bytes2", "HTTPError"} :
              req' = [req EXCEPT ![r] =
                  IF image_bytes = "HTTPError"
                  THEN [asked EXCEPT !.pc = "process"]
                  ELSE [asked EXCEPT !.image_data = Append(@, <<image_bytes, file_detail.name>>)]]

\* One turn of the download loop: client.get, raise_for_status, and the
\* append to image_data; an httpx.HTTPError ends the request with a 400.
Fetch(r) ==
    /\ UNCHANGED <<call, medical_records, service>>
    /\ req[r].pc = "fetch"
    /\ Len(req[r].image_data) < Len(req[r].request.fileDetails)
    /\ LET file_detail == req[r].request.fileDetails[Len(req[r].image_data) + 1]
           asked == [req[r] EXCEPT !.fetched = Append(@, file_detail.url)]
       IN  \E image_bytes \in {"bytes1", "bytes2", "HTTPError"} :
              req' = [req EXCEPT ![r] =
                  IF image_bytes = "HTTPError"
                  THEN [asked EXCEPT !.pc = "done"] @@
                       [response |-> HTTPException(400,
                           [msg |-> "Failed to download image from URL", url |-> file_detail.url])]
                  ELSE [asked EXCEPT !.image_data = Append(@, <<image_bytes, file_detail.name>>)]]

\* The download loop is over: process_multiple_images is called.
FetchDone(r) ==
    /\ UNCHANGED <<call, medical_records, service>>
    /\ req[r].pc = "fetch"
    /\ Len(req[r].image_data) = Len(req[r].request.fileDetails)
    /\ req' = [req EXCEPT ![r].pc = "process"]

\* ProcessImage with one retry: an image whose extraction gave the empty
\* record is called for a second time.
ProcessImage_Retries(r) ==
    /\ UNCHANGED <<call, medical_records, service>>
    /\ req[r].pc = "process"
    /\ Len(req[r].prescriptions) < Len(req[r].image_data)
    /\ LET idx == Len(req[r].prescriptions)
           image == req[r].image_data[idx + 1]
       IN  \E first \in BatchOutcomes \ {CallRaisesWith("JSONDecodeError")},
              second \in BatchOutcomes \ {CallRaisesWith("JSONDecodeError")} :
              LET one == extract_from_image(first, image[2]).value
                  two == extract_from_image(second, image[2]).value
                  again == one.medicines = <<>>
              IN  req' = [req EXCEPT
                      ![r].model_calls = IF again THEN @ + 2 ELSE @ + 1,
                      ![r].model_log = IF again THEN @ \o <<image, image>> ELSE Append(@, image),
                      ![r].model_outcomes =
                          IF again THEN @ \o <<first, second>> ELSE Append(@, first),
                      ![r].prescriptions =
                          Append(@, [(IF again THEN two ELSE one) EXCEPT !.serialNo = PyInt(idx)])]

\* One turn of the loop of process_multiple_images: extract_from_image of
\* the next image, serialNo = idx, results.append.  An exception out of
\* extract_from_image leaves the loop and the try block of the handler.
ProcessImage(r) ==
    /\ UNCHANGED <<call, medical_records, service>>
    /\ req[r].pc = "process"
    /\ Len(req[r].prescriptions) < Len(req[r].image_data)
    /\ LET idx == Len(req[r].prescriptions)
           filename == req[r].image_data[idx + 1][2]
           entered == [req[r] EXCEPT !.model_calls = @ + 1,
                                     !.model_log = Append(@, req[r].image_data[idx + 1])]
       IN  \E outcome \in BatchOutcomes :
              LET prescription == extract_from_image(outcome, filename)
                  called == [entered EXCEPT !.model_outcomes = Append(@, outcome)]
              IN  req' = [req EXCEPT ![r] =
                      IF prescription.raised
                      THEN [called EXCEPT !.pc = "done"] @@
                           [response |-> HTTPException(500,
                               [msg |-> "Error processing images", exc |-> prescription.exc])]
                      ELSE [called EXCEPT !.prescriptions =
                               Append(@, [prescription.value EXCEPT !.serialNo = PyInt(idx)])]]

\* process_multiple_images returns results.
BatchReturn(r) ==
    /\ UNCHANGED <<call, medical_records, service>>
    /\ req[r].pc = "process"
    /\ Len(req[r].prescriptions) = Len(req[r].image_data)
    /\ req' = [req EXCEPT ![r].pc = "save"]

\* Document with the ImageKit metadata of the first image on every document.
Document_FirstImage(q, i, now, inserted_id) ==
    [q.prescriptions[i] EXCEPT !.createdAt = now, !.updatedAt = now] @@
    [imagekit_url |-> q.request.fileDetails[1].url,
     imagekit_file_id |-> q.request.fileDetails[1].fileId,
     original_filename |-> q.request.fileDetails[1].name,
     user_id |-> q.current_user,
     _id |-> inserted_id]

\* The document create_prescription inserts for the i-th prescription (i from
\* 1): model_dump() with the ImageKit metadata and the user, createdAt and
\* updatedAt, and the _id of the collection.
Document(q, i, now, inserted_id) ==
    [q.prescriptions[i] EXCEPT !.createdAt = now, !.updatedAt = now] @@
    [imagekit_url |-> q.request.fileDetails[i].url,
     imagekit_file_id |-> q.request.fileDetails[i].fileId,
     original_filename |-> q.request.fileDetails[i].name,
     user_id |-> q.current_user,
     _id |-> inserted_id]

\* PrescriptionData(**saved): the fields of the model, id from the _id.
SavedPrescription(saved) ==
    [f \in {"id", "userId", "serialNo", "medicines", "reportImages", "createdAt",
            "updatedAt"} \cup ScalarFields |->
        IF f = "id" THEN PyStr(saved._id) ELSE saved[f]]

\* Save with the batch in a transaction: a failed insert removes the
\* documents the request inserted before it.
Save_RollsBack(r) ==
    /\ UNCHANGED <<call, service>>
    /\ req[r].pc = "save"
    /\ Len(req[r].saved_prescriptions) < Len(req[r].prescriptions)
    /\ LET i == Len(req[r].saved_prescriptions) + 1
           now == [k |-> "datetime", tick |-> Len(medical_records) + 1]
           saved == Document(req[r], i, now, "id" \o ToString(Len(medical_records) + 1))
       IN  \/ /\ medical_records' = Append(medical_records, saved)
              /\ req' = [req EXCEPT ![r].saved_prescriptions =
                                        Append(@, SavedPrescription(saved))]
           \/ /\ medical_records' =
                    SubSeq(medical_records, 1, Len(medical_records) - (i - 1))
              /\ req' = [req EXCEPT ![r] = [@ EXCEPT !.pc = "done"] @@
                     [response |-> HTTPException(500,
                         [msg |-> "Error processing images", exc |-> "PyMongoError"])]]

\* Save with the position of the record taken from the size of the
\* collection, a count all requests share, instead of from the request's
\* own list of saved records.
Save_SharedPosition(r) ==
    /\ UNCHANGED <<call, service>>
    /\ req[r].pc = "save"
    /\ Len(req[r].saved_prescriptions) < Len(req[r].prescriptions)
    /\ LET i == (Len(medical_records) % Len(req[r].prescriptions)) + 1
           now == [k |-> "datetime", tick |-> Len(medical_records) + 1]
           saved == Document(req[r], i, now, "id" \o ToString(Len(medical_records) + 1))
       IN  \/ /\ medical_records' = Append(medical_records, saved)
              /\ req' = [req EXCEPT ![r].saved_prescriptions =
                                        Append(@, SavedPrescription(saved))]
           \/ /\ UNCHANGED medical_records
              /\ req' = [req EXCEPT ![r] = [@ EXCEPT !.pc = "done"] @@
                     [response |-> HTTPException(500,
                         [msg |-> "Error processing images", exc |-> "PyMongoError"])]]

\* One turn of the save loop: create_prescription inserts the document, or
\* raises and the request ends with a 500.
Save(r) ==
    /\ UNCHANGED <<call, service>>
    /\ req[r].pc = "save"
    /\ Len(req[r].saved_prescriptions) < Len(req[r].prescriptions)
    /\ LET i == Len(req[r].saved_prescriptions) + 1
           now == [k |-> "datetime", tick |-> Len(medical_records) + 1]
           saved == Document(req[r], i, now, "id" \o ToString(Len(medical_records) + 1))
       IN  \/ /\ medical_records' = Append(medical_records, saved)
              /\ req' = [req EXCEPT ![r].saved_prescriptions =
                                        Append(@, SavedPrescription(saved))]
           \/ /\ UNCHANGED medical_records
              /\ req' = [req EXCEPT ![r] = [@ EXCEPT !.pc = "done"] @@
                     [response |-> HTTPException(500,
                         [msg |-> "Error processing images", exc |-> "PyMongoError"])]]

\* Respond with the count taken from the URLs of the request.
Respond_CountsUrls(r) ==
    /\ UNCHANGED <<call, medical_records, service>>
    /\ req[r].pc = "save"
    /\ Len(req[r].saved_prescriptions) = Len(req[r].prescriptions)
    /\ req' = [req EXCEPT ![r] = [@ EXCEPT !.pc = "done"] @@
           [response |-> [status_code |-> 200, success |-> TRUE,
                          count |-> Len(req[r].request.prescriptionUrls),
                          data |-> req[r].saved_prescriptions]]]

\* The save loop is over: the PrescriptionResponse.
Respond(r) ==
    /\ UNCHANGED <<call, medical_records, service>>
    /\ req[r].pc = "save"
    /\ Len(req[r].saved_prescriptions) = Len(req[r].prescriptions)
    /\ req' = [req EXCEPT ![r] = [@ EXCEPT !.pc = "done"] @@
           [response |-> [status_code |-> 200, success |-> TRUE,
                          count |-> Len(req[r].saved_prescriptions),
                          data |-> req[r].saved_prescriptions]]]

Init ==
    /\ call = NoCall
    /\ req = [r \in Uploads |-> NoRequest]
    /\ medical_records = <<>>
    /\ user_sessions = <<>>
    /\ reply = NoReply
    /\ users = <<>>
    /\ reg = [g \in Registrations |-> NoRegistration]
    /\ clock = 0

Next ==
    \E r \in Requests :
        \/ Receive(r)
        \/ Fetch(r)
        \/ FetchDone(r)
        \/ ProcessImage(r)
        \/ BatchReturn(r)
        \/ Save(r)
        \/ Respond(r)

Spec == Init /\ [][Next]_vars

----------------------------------------------------------------------------
(* Reading the medical_records collection *)

\* ObjectId(user_id), and ObjectId.is_valid: the ids of the users are the
\* str of the ObjectIds of their documents; "anon" is no such string.
ObjectId(s) == [k |-> "ObjectId", oid |-> s]
is_valid(user_id) == user_id \in Users
OwnerIds == Users \cup {"anon"}

\* The paging parameters of the read requests; limit defaults to 100.
DefaultLimit == 100
Skips == {0, 1}
Limits == {1, DefaultLimit}

\* collection.find(): every document, in insertion order.
find_all == medical_records

\* collection.find({"userId": user_id_query}): the documents whose userId
\* equals the query value, in insertion order.
find_by_userId(user_id_query) ==
    SelectSeq(medical_records, LAMBDA doc : doc.userId = user_id_query)

\* cursor.sort("createdAt", -1)
RECURSIVE sort_createdAt_desc(_)
sort_createdAt_desc(docs) ==
    IF docs = <<>> THEN <<>>
    ELSE LET i == CHOOSE i \in 1..Len(docs) :
                    \A j \in 1..Len(docs) : docs[j].createdAt.tick <= docs[i].createdAt.tick
         IN  <<docs[i]>> \o
             sort_createdAt_desc(SubSeq(docs, 1, i - 1) \o SubSeq(docs, i + 1, Len(docs)))

\* cursor.skip(skip).limit(limit), to_list(length=limit)
Page(docs, skip, limit) ==
    SubSeq(docs, skip + 1, IF skip + limit < Len(docs) THEN skip + limit ELSE Len(docs))

\* PrescriptionQueries.get_all_prescriptions(skip, limit): find() with no
\* filter.
get_all_prescriptions(skip, limit) ==
    Page(sort_createdAt_desc(find_all), skip, limit)

\* PrescriptionQueries.get_prescriptions_by_user_id(user_id, skip, limit):
\* find({"userId": user_id_query}), the query value an ObjectId whenever the
\* id is the str of one.
get_prescriptions_by_user_id(user_id, skip, limit) ==
    LET user_id_query == IF is_valid(user_id) THEN ObjectId(user_id) ELSE PyStr(user_id)
    IN  Page(sort_createdAt_desc(find_by_userId(user_id_query)), skip, limit)

\* GET /usersMedicalData for an authenticated user.
ListPrescriptions ==
    /\ UNCHANGED <<uploads, user_sessions, clock>>
    /\ \E current_user \in Users, skip \in Skips, limit \in Limits :
          LET prescriptions == get_all_prescriptions(skip, limit)
          IN  reply' = [op |-> "usersMedicalData", current_user |-> current_user,
                        skip |-> skip, limit |-> limit, stored |-> Len(medical_records),
                        status_code |-> 200, success |-> TRUE,
                        count |-> Len(prescriptions), data |-> prescriptions]

\* A call of get_prescriptions_by_user_id.
FindByOwner ==
    /\ UNCHANGED <<uploads, user_sessions, clock>>
    /\ \E user_id \in OwnerIds, skip \in Skips, limit \in Limits :
          reply' = [op |-> "get_prescriptions_by_user_id", user_id |-> user_id,
                    skip |-> skip, limit |-> limit, stored |-> Len(medical_records),
                    data |-> get_prescriptions_by_user_id(user_id, skip, limit)]

\* The upload endpoint together with the reads of the collection.
NextRecords ==
    \/ Next
    \/ ListPrescriptions
    \/ FindByOwner

SpecRecords == Init /\ [][NextRecords]_vars

----------------------------------------------------------------------------
(* The users collection and POST /auth/register *)

Emails == {"asha@x.org", "ravi@x.org"}
Mobiles == {"9000000001", "9000000002"}
PasswordOf == ("asha@x.org" :> "Secret#1") @@ ("ravi@x.org" :> "Secret#2")

\* UserCreate: the bodies that pass its validators, their passwords under
\* the 72 bytes of get_password_hash.
UserCreate(email, mobileNumber) ==
    [name |-> "Asha", email |-> email, mobileNumber |-> mobileNumber,
     password |-> PasswordOf[email], confirmPassword |-> PasswordOf[email]]

UserBodies == {UserCreate(email, mobileNumber) : email \in Emails, mobileNumber \in Mobiles}

\* datetime.utcnow()
utcnow == [k |-> "datetime", tick |-> clock]

\* pwd_context.hash(password) and pwd_context.verify(plain, hashed)
get_password_hash(password) == [k |-> "bcrypt", of |-> password]
verify_password(plain_password, hashed_password) == hashed_password.of = plain_password

\* user["id"] = str(user["_id"]); del user["_id"]
WithId(user) ==
    [f \in (DOMAIN user \ {"_id"}) \cup {"id"} |-> IF f = "id" THEN user._id ELSE user[f]]

\* find_one(filter): the first document of the collection that matches,
\* its id under "id", or None.
FirstUser(matching) ==
    IF matching = {} THEN PyNone
    ELSE WithId(users[CHOOSE i \in matching : \A j \in matching : i <= j])

\* UserQueries.get_user_by_email(collection, email)
get_user_by_email(email) == FirstUser({i \in 1..Len(users) : users[i].email = email})

\* users_collection.find_one({"mobileNumber": mobileNumber})
find_one_mobileNumber(mobileNumber) ==
    FirstUser({i \in 1..Len(users) : users[i].mobileNumber = mobileNumber})

\* UserQueries.get_user_by_id(collection, user_id)
get_user_by_id(user_id) == FirstUser({i \in 1..Len(users) : users[i]._id = user_id})

\* user_data.dict(exclude={"password", "confirmPassword"}) with passwordHash,
\* createdAt, updatedAt and the _id of the collection.
UserDocument(user_data, now, inserted_id) ==
    [name |-> user_data.name, email |-> user_data.email,
     mobileNumber |-> user_data.mobileNumber,
     passwordHash |-> get_password_hash(user_data.password),
     createdAt |-> now, updatedAt |-> now, _id |-> inserted_id]

\* UserResponse(**user): the user without the password hash.
UserResponse(user) ==
    [f \in {"id", "name", "email", "mobileNumber", "createdAt", "updatedAt"} |-> user[f]]

\* The unique indexes on email and on mobileNumber: insert_one of a document
\* that repeats either raises DuplicateKeyError.
DuplicateKey_NoIndex(document) == FALSE

DuplicateKey(document) ==
    \E i \in 1..Len(users) :
        \/ users[i].email = document.email
        \/ users[i].mobileNumber = document.mobileNumber

Rejected(g, user_data, status_code, detail) ==
    [reg EXCEPT ![g] = [pc |-> "done", user_data |-> user_data,
                        response |-> HTTPException(status_code, detail)]]

\* CheckEmail that goes on to the mobile number whatever it finds.
CheckEmail_NoCheck(g) ==
    /\ UNCHANGED <<call, req, medical_records, user_sessions, reply, users, clock>>
    /\ reg[g].pc = "idle"
    /\ \E user_data \in UserBodies :
          reg' = [reg EXCEPT ![g] = [pc |-> "mobile", user_data |-> user_data]]

\* create_user up to its second await: get_user_by_email and the 400 for an
\* email that a user holds.
CheckEmail(g) ==
    /\ UNCHANGED <<call, req, medical_records, user_sessions, reply, users, clock>>
    /\ reg[g].pc = "idle"
    /\ \E user_data \in UserBodies :
          reg' = IF get_user_by_email(user_data.email) # PyNone
                 THEN Rejected(g, user_data, 400, "User with this email already exists")
                 ELSE [reg EXCEPT ![g] = [pc |-> "mobile", user_data |-> user_data]]

\* find_one on the mobile number and the 400 for one that a user holds.
CheckMobile(g) ==
    /\ UNCHANGED <<call, req, medical_records, user_sessions, reply, users, clock>>
    /\ reg[g].pc = "mobile"
    /\ reg' = IF find_one_mobileNumber(reg[g].user_data.mobileNumber) # PyNone
              THEN Rejected(g, reg[g].user_data, 400,
                            "User with this mobile number already exists")
              ELSE [reg EXCEPT ![g].pc = "insert"]

\* The rest of create_user: the hash, insert_one, get_user_by_id and the
\* 201; an exception of the insert is answered with the 500 of line 76.
CreateUser(g) ==
    /\ UNCHANGED <<call, req, medical_records, user_sessions, reply, clock>>
    /\ reg[g].pc = "insert"
    /\ LET user_id == "u" \o ToString(Len(users) + 1)
           document == UserDocument(reg[g].user_data, utcnow, user_id)
       IN  \/ /\ ~DuplicateKey(document)
              /\ users' = Append(users, document)
              /\ reg' = [reg EXCEPT ![g] = [@ EXCEPT !.pc = "done"] @@
                     [response |-> [status_code |-> 201, success |-> TRUE,
                                    message |-> "User created successfully",
                                    data |-> UserResponse(WithId(document))]]]
           \/ /\ UNCHANGED users
              /\ reg' = Rejected(g, reg[g].user_data, 500,
                                 "Internal server error during user creation")

NextRegister ==
    \E g \in Registrations :
        \/ CheckEmail(g)
        \/ CheckMobile(g)
        \/ CreateUser(g)

SpecRegister == Init /\ [][NextRegister]_vars

----------------------------------------------------------------------------
(* Tokens: app/utils/auth.py over python-jose *)

\* The clock runs to MaxClock ticks, TicksPerSecond of them in a second; a
\* token lives ACCESS_TOKEN_EXPIRE_MINUTES minutes, and the minute of the
\* model is SecondsPerMinute seconds long.
MaxClock == 4
TicksPerSecond == 2
SecondsPerMinute == 1
ACCESS_TOKEN_EXPIRE_MINUTES == 1

\* timegm(dt.utctimetuple()): the whole seconds of a datetime
timegm(dt) == dt.tick \div TicksPerSecond

\* datetime + timedelta(minutes=minutes)
plus(dt, minutes) ==
    [dt EXCEPT !.tick = @ + minutes * SecondsPerMinute * TicksPerSecond]

\* jwt.encode(claims, key): the claims signed with the key, the datetimes
\* under exp, iat and nbf as whole seconds.
encode(claims, key) ==
    [payload |-> [c \in DOMAIN claims |->
                     IF c \in {"exp", "iat", "nbf"} /\ claims[c].k = "datetime"
                     THEN PyInt(timegm(claims[c])) ELSE claims[c]],
     key |-> key]

\* jwt.decode that does not look at the signature.
decode_AnyKey(token, key) ==
    IF "key" \notin DOMAIN token THEN Raise("JWTError")
    ELSE IF "exp" \in DOMAIN token.payload /\ token.payload.exp.n < timegm(utcnow)
    THEN Raise("ExpiredSignatureError")
    ELSE IF "sub" \in DOMAIN token.payload /\ token.payload.sub.k # "str"
    THEN Raise("JWTClaimsError")
    ELSE Valid(token.payload)

\* jwt.decode(token, key): the claims of a token the key signed, whose exp
\* has not passed and whose sub, if any, is a string.
decode(token, key) ==
    IF "key" \notin DOMAIN token THEN Raise("JWTError")
    ELSE IF token.key # key THEN Raise("JWTError")
    ELSE IF "exp" \in DOMAIN token.payload /\ token.payload.exp.n < timegm(utcnow)
    THEN Raise("ExpiredSignatureError")
    ELSE IF "sub" \in DOMAIN token.payload /\ token.payload.sub.k # "str"
    THEN Raise("JWTClaimsError")
    ELSE Valid(token.payload)

\* AuthUtils.create_access_token(data): data with exp set, encoded.
create_access_token(data) ==
    encode([c \in DOMAIN data \cup {"exp"} |->
               IF c = "exp" THEN plus(utcnow, ACCESS_TOKEN_EXPIRE_MINUTES) ELSE data[c]],
           "SECRET_KEY")

\* AuthUtils.verify_token(token): the payload, or None for whatever
\* jwt.decode raises.
verify_token(token) ==
    LET payload == decode(token, "SECRET_KEY")
    IN  IF payload.ok THEN payload.value ELSE PyNone

\* create_token_for_user(user_id, email)
create_token_for_user(user_id, email) ==
    create_access_token([sub |-> PyStr(user_id), email |-> PyStr(email), iat |-> utcnow,
                         exp |-> plus(utcnow, ACCESS_TOKEN_EXPIRE_MINUTES)])

\* Strings that are no token of the server: a token signed with another
\* key, and a string that is no JWT.
ForgedToken ==
    [payload |-> [sub |-> PyStr("u1"), exp |-> PyInt(MaxClock)], key |-> "other key"]
NotAToken == PyStr("invalid.token.here")

\* A token of the server whose payload names no user.
NoSubToken == encode([exp |-> PyInt(MaxClock)], "SECRET_KEY")

\* The claims mappings handed to create_access_token.
ClaimsMappings ==
    {[sub |-> PyStr("u1"), email |-> PyStr("asha@x.org")],
     [sub |-> PyStr("u2"), email |-> PyStr("ravi@x.org")],
     [sub |-> PyStr("u1"), email |-> PyStr("asha@x.org"), exp |-> PyInt(0)],
     [sub |-> PyStr("u1"), email |-> PyStr("asha@x.org"), iat |-> [k |-> "datetime", tick |-> 1]],
     [sub |-> PyInt(7), email |-> PyStr("asha@x.org")]}

\* Time passes.
Tick ==
    /\ UNCHANGED <<uploads, user_sessions, reply>>
    /\ clock < MaxClock
    /\ clock' = clock + 1

\* create_access_token(data) for one of the mappings.
Issue ==
    /\ UNCHANGED <<uploads, user_sessions, clock>>
    /\ \E data \in ClaimsMappings :
          reply' = [op |-> "create_access_token", data |-> data,
                    token |-> create_access_token(data)]

\* verify_token of the token issued last.
VerifyIssued ==
    /\ UNCHANGED <<uploads, user_sessions, clock>>
    /\ reply.op \in {"create_access_token", "verify_token"}
    /\ "data" \in DOMAIN reply
    /\ reply' = [op |-> "verify_token", data |-> reply.data, token |-> reply.token,
                 now |-> timegm(utcnow), payload |-> verify_token(reply.token)]

\* verify_token of a string the server did not issue.
VerifyForeign ==
    /\ UNCHANGED <<uploads, user_sessions, clock>>
    /\ \E token \in {ForgedToken, NotAToken} :
          reply' = [op |-> "verify_token", token |-> token, now |-> timegm(utcnow),
                    payload |-> verify_token(token)]

NextToken ==
    \/ Tick
    \/ Issue
    \/ VerifyIssued
    \/ VerifyForeign

SpecToken == Init /\ [][NextToken]_vars

----------------------------------------------------------------------------
(* Login, logout and the current user, with two users registered *)

MaxSessions == 2

\* The store after the registrations of Asha and Ravi.
RegisteredUsers ==
    <<UserDocument(UserCreate("asha@x.org", "9000000001"), [k |-> "datetime", tick |-> 0], "u1"),
      UserDocument(UserCreate("ravi@x.org", "9000000002"), [k |-> "datetime", tick |-> 0], "u2")>>

\* The emails and passwords of the logins: those of the two users, and an
\* email nobody registered.
LoginBodies ==
    [email : Emails \cup {"nobody@x.org"}, password : {"Secret#1", "Secret#2"}]

\* get_current_user(credentials): the user, or the 401 it raises.
get_current_user(token) ==
    LET payload == verify_token(token)
    IN  IF payload = PyNone
        THEN Raise(HTTPException(401, [msg |-> "Invalid authentication credentials"]))
        ELSE IF "sub" \notin DOMAIN payload
        THEN Raise(HTTPException(401, [msg |-> "Invalid authentication credentials"]))
        ELSE IF get_user_by_id(payload.sub.s) = PyNone
        THEN Raise(HTTPException(401, [msg |-> "User not found"]))
        ELSE Valid(get_user_by_id(payload.sub.s))

\* The filter {"jwtToken": jwt_token, "logoutTime": None}: it matches a
\* session whose logoutTime is null or missing.
ActiveWith(session, jwt_token) ==
    /\ session.jwtToken = jwt_token
    /\ "logoutTime" \in DOMAIN session => session.logoutTime = PyNone

\* UserSessionQueries.get_active_session(collection, jwt_token)
get_active_session(jwt_token) ==
    IF \E i \in 1..Len(user_sessions) : ActiveWith(user_sessions[i], jwt_token)
    THEN user_sessions[CHOOSE i \in 1..Len(user_sessions) :
            /\ ActiveWith(user_sessions[i], jwt_token)
            /\ \A j \in 1..(i - 1) : ~ActiveWith(user_sessions[j], jwt_token)]
    ELSE PyNone

\* update_session_logout with the filter {"jwtToken": jwt_token} alone: the
\* logout time is set again on every logout.
update_session_logout_AnySession(jwt_token) ==
    [i \in 1..Len(user_sessions) |->
        IF user_sessions[i].jwtToken = jwt_token
        THEN [f \in DOMAIN user_sessions[i] \cup {"logoutTime"} |->
                 IF f = "logoutTime" THEN utcnow ELSE user_sessions[i][f]]
        ELSE user_sessions[i]]

\* UserSessionQueries.update_session_logout(collection, jwt_token): update_one
\* sets logoutTime on the first session the filter matches.
update_session_logout(jwt_token) ==
    IF get_active_session(jwt_token) = PyNone THEN user_sessions
    ELSE LET i == CHOOSE i \in 1..Len(user_sessions) :
                    /\ ActiveWith(user_sessions[i], jwt_token)
                    /\ \A j \in 1..(i - 1) : ~ActiveWith(user_sessions[j], jwt_token)
         IN  [user_sessions EXCEPT ![i] =
                 [f \in DOMAIN @ \cup {"logoutTime"} |->
                     IF f = "logoutTime" THEN utcnow ELSE @[f]]]

\* The tokens a client may present: those issued, a forged one, one
\* without a subject.
Presented ==
    {user_sessions[i].jwtToken : i \in 1..Len(user_sessions)} \cup {ForgedToken, NoSubToken}

\* The token has a session that carries a logout time.
LoggedOut(token) ==
    \E i \in 1..Len(user_sessions) :
        /\ user_sessions[i].jwtToken = token
        /\ ~ActiveWith(user_sessions[i], token)

\* Login that answers a wrong password with a message of its own.
Login_TellsWhich ==
    /\ UNCHANGED <<uploads, clock>>
    /\ Len(user_sessions) < MaxSessions
    /\ \E login_data \in LoginBodies :
          LET user == get_user_by_email(login_data.email)
              asked == [op |-> "login", login_data |-> login_data]
          IN  IF user = PyNone
              THEN /\ UNCHANGED user_sessions
                   /\ reply' = asked @@ HTTPException(401, "Invalid email or password")
              ELSE IF ~verify_password(login_data.password, user.passwordHash)
              THEN /\ UNCHANGED user_sessions
                   /\ reply' = asked @@ HTTPException(401, "Wrong password")
              ELSE LET token == create_token_for_user(user.id, user.email)
                   IN  IF \E i \in 1..Len(user_sessions) : user_sessions[i].jwtToken = token
                       THEN /\ UNCHANGED user_sessions
                            /\ reply' = asked @@
                                   HTTPException(500, "Internal server error during login")
                       ELSE /\ user_sessions' = Append(user_sessions,
                                   [userId |-> user.id, loginTime |-> utcnow,
                                    jwtToken |-> token])
                            /\ reply' = asked @@
                                   [status_code |-> 200, success |-> TRUE,
                                    message |-> "Login successful",
                                    data |-> [user |-> UserResponse(user), token |-> token,
                                              message |-> "Login successful"]]

\* POST /auth/login: the 401 for an unknown email or a wrong password; the
\* token and the session; the 500 for an insert that the unique index on
\* jwtToken refuses.
Login ==
    /\ UNCHANGED <<uploads, clock>>
    /\ Len(user_sessions) < MaxSessions
    /\ \E login_data \in LoginBodies :
          LET user == get_user_by_email(login_data.email)
              asked == [op |-> "login", login_data |-> login_data]
          IN  IF user = PyNone
              THEN /\ UNCHANGED user_sessions
                   /\ reply' = asked @@ HTTPException(401, "Invalid email or password")
              ELSE IF ~verify_password(login_data.password, user.passwordHash)
              THEN /\ UNCHANGED user_sessions
                   /\ reply' = asked @@ HTTPException(401, "Invalid email or password")
              ELSE LET token == create_token_for_user(user.id, user.email)
                   IN  IF \E i \in 1..Len(user_sessions) : user_sessions[i].jwtToken = token
                       THEN /\ UNCHANGED user_sessions
                            /\ reply' = asked @@
                                   HTTPException(500, "Internal server error during login")
                       ELSE /\ user_sessions' = Append(user_sessions,
                                   [userId |-> user.id, loginTime |-> utcnow,
                                    jwtToken |-> token])
                            /\ reply' = asked @@
                                   [status_code |-> 200, success |-> TRUE,
                                    message |-> "Login successful",
                                    data |-> [user |-> UserResponse(user), token |-> token,
                                              message |-> "Login successful"]]

\* POST /auth/logout with the token.
Logout ==
    /\ UNCHANGED <<uploads, clock>>
    /\ \E token \in Presented :
          LET current_user == get_current_user(token)
          IN  IF ~current_user.ok
              THEN /\ UNCHANGED user_sessions
                   /\ reply' = [op |-> "logout", token |-> token,
                                after_logout |-> LoggedOut(token),
                                status_code |-> current_user.exc.status_code]
              ELSE /\ user_sessions' = update_session_logout(token)
                   /\ reply' = [op |-> "logout", token |-> token,
                                after_logout |-> LoggedOut(token), status_code |-> 200,
                                message |-> "Logout successful"]

\* A request to an endpoint that depends on get_current_user, made with the
\* token: the dependency returns the user or answers 401.
Authenticate ==
    /\ UNCHANGED <<uploads, user_sessions, clock>>
    /\ \E token \in Presented :
          LET current_user == get_current_user(token)
          IN  reply' = [op |-> "get_current_user", token |-> token,
                        after_logout |-> LoggedOut(token),
                        status_code |-> IF current_user.ok THEN 200
                                        ELSE current_user.exc.status_code]

InitSession ==
    /\ call = NoCall
    /\ req = [r \in Uploads |-> NoRequest]
    /\ medical_records = <<>>
    /\ user_sessions = <<>>
    /\ reply = NoReply
    /\ users = RegisteredUsers
    /\ reg = [g \in Registrations |-> NoRegistration]
    /\ clock = 0

NextSession ==
    \/ Login
    \/ Logout
    \/ Authenticate
    \/ Tick

SpecSession == InitSession /\ [][NextSession]_vars

----------------------------------------------------------------------------
(* One call of extract_from_image, step by step *)

Filenames == {RxJpg, RxPng}


\* The model returns the text, fenced and formed and shaped, for the image.
CallReturnsText ==
    /\ UNCHANGED <<req, medical_records, service>>
    /\ call.pc = "idle"
    /\ \E image_filename \in Filenames, t \in Texts, fence \in fences, shape \in shapes :
         \E form \in FormsOf(Fenced(fence, t)) :
            call' = [pc |-> "created", image_filename |-> image_filename,
                     text |-> t, fence |-> fence, form |-> form, shape |-> shape,
                     known |-> TRUE,
                     outcome |-> Returns(Response(shape, Content(form, Fenced(fence, t))))]

\* The model returns a response of none of the known shapes.
CallReturnsUnknown ==
    /\ UNCHANGED <<req, medical_records, service>>
    /\ call.pc = "idle"
    /\ \E image_filename \in Filenames, response \in UnknownResponses :
            call' = [pc |-> "created", image_filename |-> image_filename,
                     known |-> FALSE, outcome |-> Returns(response)]

\* chat.completions.create raises: control passes to the except clauses.
CallRaisesError ==
    /\ UNCHANGED <<req, medical_records, service>>
    /\ call.pc = "idle"
    /\ \E image_filename \in Filenames, exc \in CallErrors :
            call' = [pc |-> "returned", image_filename |-> image_filename,
                     known |-> FALSE, outcome |-> CallRaisesWith(exc),
                     result |-> extract_from_image(CallRaisesWith(exc), image_filename)]

\* "Extract content from response"
Unwrap ==
    /\ UNCHANGED <<req, medical_records, service>>
    /\ call.pc = "created"
    /\ call' = [call EXCEPT !.pc = "unwrapped"] @@
               [extracted_text |-> ExtractText(call.outcome.response)]

\* Clean-up, json.loads, mapping, and the except clauses.
Finish ==
    /\ UNCHANGED <<req, medical_records, service>>
    /\ call.pc = "unwrapped"
    /\ call' = [call EXCEPT !.pc = "returned"] @@
               [result |-> Handle(ParseAndBuild(call.extracted_text, call.image_filename),
                                  call.image_filename)]

InitExtract ==
    /\ call = NoCall
    /\ req = [r \in Uploads |-> NoRequest]
    /\ medical_records = <<>>
    /\ user_sessions = <<>>
    /\ reply = NoReply
    /\ users = <<>>
    /\ reg = [g \in Registrations |-> NoRegistration]
    /\ clock = 0

NextExtract ==
    \/ CallReturnsText
    \/ CallReturnsUnknown
    \/ CallRaisesError
    \/ Unwrap
    \/ Finish

SpecExtract == InitExtract /\ [][NextExtract]_vars

----------------------------------------------------------------------------
(* Properties of extract_from_image, checked under SpecExtract *)

\* The empty record of an image: no medicines, every scalar field None, and
\* the image's file name as its only report image.
IsEmptyRecord(r, image_filename) ==
    /\ r.medicines = <<>>
    /\ \A f \in ScalarFields : r[f] = PyNone
    /\ r.reportImages = <<image_filename>>

Returned == call.pc = "returned"

\* What json.loads is handed in the call, and what it makes of it.
Loaded == json_loads(CleanMarkdown(call.extracted_text))

\* The call ended with the model's text parsed as a JSON object.
ParsedObject == Returned /\ ~call.outcome.raises /\ Loaded.ok /\ Loaded.value.k = "dict"

\* C2: whenever the model call raises, or the text handed to json.loads is
\* not parsable as JSON, extract_from_image returns the empty record of the
\* image: medicines [], every scalar field None, reportImages [file name].
C2_EmptyOnFailure ==
    (Returned /\ (call.outcome.raises \/ ~Loaded.ok))
        => /\ ~call.result.raised
           /\ IsEmptyRecord(call.result.value, call.image_filename)

\* The mapping failures: the parsed value is no object; its medicines value
\* is None or holds an entry that is no object; a value fails validation.
NotAnObject == Loaded.value.k # "dict"

MedicinesValue == get(Loaded.value, "medicines", PyList(<<>>))

BadMedicines ==
    /\ Loaded.value.k = "dict"
    /\ \/ MedicinesValue = PyNone
       \/ /\ MedicinesValue.k = "list"
          /\ \E i \in 1..Len(MedicinesValue.items) : MedicinesValue.items[i].k # "dict"

FailsValidation ==
    /\ Loaded.value.k = "dict"
    /\ \/ \E f \in ScalarFields : ~FieldValidator(f, get(Loaded.value, f, PyNone)).ok
       \/ /\ MedicinesValue.k = "list"
          /\ \E i \in 1..Len(MedicinesValue.items) :
                /\ MedicinesValue.items[i].k = "dict"
                /\ ~MedicineAt(i - 1, MedicinesValue.items[i]).ok

MappingFailure ==
    /\ Returned /\ ~call.outcome.raises /\ Loaded.ok
    /\ NotAnObject \/ BadMedicines \/ FailsValidation

\* C3: extract_from_image returns a record for every model outcome and never
\* raises; when the parsed value is no object, its medicines value is None or
\* holds a non-object entry, or a value fails validation, the record is the
\* empty record of the image.
C3_TotalAndEmptyOnMappingFailure ==
    Returned =>
        /\ ~call.result.raised
        /\ call.result.value.reportImages = <<call.image_filename>>
        /\ MappingFailure => IsEmptyRecord(call.result.value, call.image_filename)

\* Python's == on the values of the scalar fields: numbers by their value.
IsNumber(v) == v.k \in {"int", "float"}
Tenths(v) == IF v.k = "int" THEN v.n * 10 ELSE v.tenths
PyEq(a, b) == IF IsNumber(a) /\ IsNumber(b) THEN Tenths(a) = Tenths(b) ELSE a = b

\* The value the parsed object holds under a scalar key, None when absent.
Under(f) == get(Loaded.value, f, PyNone)

Mappable ==
    /\ MedicinesValue.k = "list"
    /\ \A i \in 1..Len(MedicinesValue.items) :
          /\ MedicinesValue.items[i].k = "dict"
          /\ MedicineAt(i - 1, MedicinesValue.items[i]).ok
    /\ \A f \in ScalarFields : FieldValidator(f, Under(f)).ok

\* A decimal string under a numeric key, as the number it denotes.
Denotes(f, v, r) ==
    /\ f \in {"age", "weight", "height", "temperature"}
    /\ v.k = "str" /\ v.s \in DOMAIN IntLiteral
    /\ PyEq(r, PyInt(IntLiteral[v.s]))

C5_MedicineIds ==
    (Returned /\ ~call.result.raised) =>
        /\ \A i \in 1..Len(call.result.value.medicines) :
              call.result.value.medicines[i].id = "med_" \o ToString(i)
        /\ (ParsedObject /\ Mappable) =>
              /\ Len(call.result.value.medicines) = Len(MedicinesValue.items)
              /\ \A i \in 1..Len(MedicinesValue.items) :
                    call.result.value.medicines[i].name =
                        get(MedicinesValue.items[i], "name", PyNone)

C5_Witness ==
    /\ ParsedObject /\ Mappable
    /\ MedicinesValue = PyList(<<MedicineWithId, GoodMedicine>>)
    /\ Len(call.result.value.medicines) = 2
    /\ call.result.value.medicines[1].id = "med_1"
    /\ call.result.value.medicines[1].name = PyStr("Para")
    /\ call.result.value.medicines[2].id = "med_2"

\* The record of the same call with the text as it is, without a fence.
Unfenced ==
    extract_from_image(Returns(Response(call.shape, Content(call.form, call.text))),
                       call.image_filename)

FencedCall == Returned /\ call.known /\ call.fence # "none"

\* C6 as claimed: for every model text T, the record produced for T wrapped
\* in code-fence markers equals the record produced for T unfenced.
C6_FencedEqualsUnfenced == FencedCall => call.result = Unfenced

\* T brings no fence marker or json tag of its own: trimmed, it neither
\* starts with three backquotes or the word json nor ends with three
\* backquotes.
BareText(t) ==
    /\ ~startswith(strip(t), Backticks)
    /\ ~startswith(strip(t), <<Ch("j"), Ch("s"), Ch("o"), Ch("n")>>)
    /\ ~endswith(strip(t), Backticks)

\* C6 amended: for every model text T that itself neither starts with a fence
\* marker or the word json nor ends with a fence marker, the record produced
\* for T wrapped in code-fence markers equals the record produced for T
\* unfenced.
C6_FencedBareEqualsUnfenced ==
    (FencedCall /\ BareText(call.text)) => call.result = Unfenced

C6_Witness ==
    /\ FencedCall /\ BareText(call.text)
    /\ call.fence = "json_lines"
    /\ call.text = <<Doc(PyDict(GoodFields))>>
    /\ call.result.value.patientName = PyStr("Asha")
    /\ Len(call.result.value.medicines) = 1
    /\ call.result = Unfenced

\* The forms in which the content is a list of parts.
ListForms ==
    {"part_text", "part_value", "part_str", "parts_padded", "split_between",
     "split_inside"}

\* The content of the call is a list of parts that together carry a JSON text.
PartsCarryJson ==
    /\ Returned /\ call.known
    /\ call.form \in ListForms
    /\ call.fence = "none"
    /\ IsDocument(strip(call.text))

\* The record of the same call with the JSON text as a plain string content.
AsPlainString ==
    extract_from_image(Returns(Response(call.shape, PyText(call.text))),
                       call.image_filename)

\* C7 as claimed: when the content is a list of parts that together carry a
\* JSON text, the record equals the record produced for a plain string
\* content with the same JSON.
C7_PartsEqualPlainString == PartsCarryJson => call.result = AsPlainString

\* C7 amended: when the content is a list of parts that together carry a
\* JSON text and no part ends inside a JSON token, the parts are joined with
\* line breaks and the record equals the record produced for a plain string
\* content with the same JSON.
C7_WholeTokenPartsEqualPlainString ==
    (PartsCarryJson /\ call.form # "split_inside") =>
        /\ call.result = AsPlainString
        /\ call.form = "split_between" =>
              call.extracted_text =
                  <<DocLeft(call.text[1].doc, FALSE), Ch("\n"),
                    DocRight(call.text[1].doc, FALSE)>>

C7_Witness ==
    /\ PartsCarryJson /\ call.form = "split_between"
    /\ call.text = <<Doc(PyDict(GoodFields))>>
    /\ call.result.value.patientName = PyStr("Asha")
    /\ call.result = AsPlainString

\* The response of the call has none of the known shapes.
UnknownShape == ~call.outcome.raises /\ ~call.known

\* C8: when the response has none of the known shapes, the extracted text is
\* the empty string, the call does not raise, and it returns the empty record
\* of the image.
C8_UnknownShapeGivesEmpty ==
    /\ (call.pc \in {"unwrapped", "returned"} /\ UnknownShape)
          => call.extracted_text = <<>>
    /\ (Returned /\ UnknownShape)
          => /\ ~call.result.raised
             /\ IsEmptyRecord(call.result.value, call.image_filename)

C8_Witness ==
    /\ Returned /\ UnknownShape
    /\ call.outcome.response = Response("sdk", PyInt(5))
    /\ call.extracted_text = <<>>
    /\ IsEmptyRecord(call.result.value, call.image_filename)

----------------------------------------------------------------------------
(* Properties of the upload endpoint, checked under Spec *)

\* The call of process_multiple_images of a request is over: it has
\* returned, or an exception has left it.
BatchOver(r) ==
    \/ req[r].pc = "save"
    \/ req[r].pc = "done" /\ req[r].model_calls > 0

\* The i-th record of the batch (i from 1) belongs to the i-th input pair
\* and carries its 0-based position.
InPlace(r, i) ==
    /\ req[r].prescriptions[i].serialNo = PyInt(i - 1)
    /\ req[r].prescriptions[i].reportImages = <<req[r].image_data[i][2]>>

\* C1: for every list of n (bytes, filename) pairs, process_multiple_images
\* returns n records in input order, the i-th (0-based) with serialNo = i,
\* whatever the extractions gave: while the batch runs each record built so
\* far is in its place, one extraction per record, and the batch is never
\* left with fewer records than pairs.
C1_BatchAlignment ==
    \A r \in Requests :
        /\ req[r].pc = "process" =>
              /\ Len(req[r].prescriptions) <= Len(req[r].image_data)
              /\ req[r].model_calls = Len(req[r].prescriptions)
              /\ \A i \in 1..Len(req[r].prescriptions) : InPlace(r, i)
        /\ BatchOver(r) =>
              /\ Len(req[r].prescriptions) = Len(req[r].image_data)
              /\ \A i \in 1..Len(req[r].prescriptions) : InPlace(r, i)

\* The request carries an image URL, in prescriptionUrls or in a file
\* detail, whose extension is outside the allowed ones.
DisallowedUrl(r) ==
    \/ \E i \in 1..Len(req[r].request.prescriptionUrls) :
          ~AllowedName(req[r].request.prescriptionUrls[i])
    \/ \E i \in 1..Len(req[r].request.fileDetails) :
          ~AllowedName(req[r].request.fileDetails[i].url)

\* C9: a request in which any image URL has an extension outside .jpg,
\* .jpeg, .png, .gif, .webp (case-insensitively) is rejected as a whole with
\* a 400 before any image is fetched.
C9_DisallowedUrlRejected ==
    \A r \in Requests :
        (req[r].pc # "idle" /\ DisallowedUrl(r))
            => /\ req[r].pc = "done"
               /\ req[r].response.status_code = 400
               /\ req[r].fetched = <<>>

Received(r) == req[r].pc # "idle"

Answered(r) == req[r].pc = "done"

\* The number of images of the request: the entries of fileDetails.
Submitted(r) == Len(req[r].request.fileDetails)

\* The request passes the two validations of lines 21-36.
Validated(r) ==
    /\ Received(r)
    /\ req[r].request.prescriptionUrls # <<>>
    /\ \A i \in 1..Submitted(r) : AllowedName(req[r].request.fileDetails[i].name)

\* A download of the request failed: the URL was asked for and no bytes
\* were appended for it.
FetchFailed(r) == Received(r) /\ Len(req[r].fetched) > Len(req[r].image_data)

\* An insert of the request failed.
InsertFailed(r) ==
    /\ Answered(r)
    /\ req[r].response.status_code = 500
    /\ req[r].response.detail.exc = "PyMongoError"

\* The documents of the collection the request inserted: with one request,
\* all of them.
NothingPersisted(r) ==
    /\ req[r].saved_prescriptions = <<>>
    /\ Requests = {r} => medical_records = <<>>

\* C11: when the download of any one image of a request fails, the request
\* ends with a 400 whose detail names that image's URL, the model is called
\* for no image of the request, and no record of the request is inserted.
C11_FetchFailureAborts ==
    \A r \in Requests :
        FetchFailed(r) =>
            /\ Answered(r)
            /\ req[r].response.status_code = 400
            /\ req[r].response.detail.url = req[r].fetched[Len(req[r].fetched)]
            /\ req[r].model_calls = 0
            /\ req[r].prescriptions = <<>>
            /\ NothingPersisted(r)

C11_Witness ==
    \E r \in Requests :
        /\ FetchFailed(r)
        /\ req[r].request.fileDetails =
              <<FileDetail(UrlJpg, "f1", RxJpg), FileDetail(UrlExe, "f2", RxPng)>>
        /\ Len(req[r].image_data) = 1
        /\ req[r].response.status_code = 400
        /\ req[r].response.detail.url = UrlExe
        /\ req[r].model_calls = 0
        /\ medical_records = <<>>

\* C12: a failure of the model call or of parsing its output for one image
\* never reaches the caller as an error: a validated request all of whose
\* downloads and inserts succeed is answered with a success carrying one
\* record per submitted image, the model having been called for every image.
C12_ExtractionFailureNotPropagated ==
    \A r \in Requests :
        (Answered(r) /\ Validated(r) /\ ~FetchFailed(r) /\ ~InsertFailed(r))
            => /\ req[r].response.status_code = 200
               /\ req[r].response.count = Submitted(r)
               /\ Len(req[r].response.data) = Submitted(r)
               /\ req[r].model_calls = Submitted(r)

\* C13: every request ends either rejected with no record of it inserted, or
\* with a success whose count is the number of submitted images; no request
\* ends with an error and records of it inserted.
C13_RejectionOrFullSuccess ==
    \A r \in Requests :
        Answered(r) =>
            \/ /\ req[r].response.status_code # 200
               /\ NothingPersisted(r)
            \/ /\ req[r].response.status_code = 200
               /\ req[r].response.count = Submitted(r)

\* C13 amended: every request ends in one of three outcomes: an error (400
\* or 500) with no record of it inserted; a success whose count is the number
\* of entries of fileDetails, each with its document inserted; or the 500 of
\* a failed insert, with the documents inserted before it left in the
\* collection and fewer of them than images.
C13_ThreeOutcomes ==
    \A r \in Requests :
        Answered(r) =>
            \/ /\ req[r].response.status_code \in {400, 500}
               /\ NothingPersisted(r)
            \/ /\ req[r].response.status_code = 200
               /\ req[r].response.count = Submitted(r)
               /\ Len(req[r].saved_prescriptions) = Submitted(r)
               /\ Requests = {r} => Len(medical_records) = Submitted(r)
            \/ /\ InsertFailed(r)
               /\ req[r].saved_prescriptions # <<>>
               /\ Len(req[r].saved_prescriptions) < Submitted(r)
               /\ Requests = {r} =>
                     Len(medical_records) = Len(req[r].saved_prescriptions)

C13_Witness ==
    \E r \in Requests :
        /\ InsertFailed(r)
        /\ Submitted(r) = 2
        /\ Len(req[r].saved_prescriptions) = 1
        /\ Len(medical_records) = 1
        /\ medical_records[1].original_filename = req[r].request.fileDetails[1].name

\* The k-th insert of the request failed (k from 1).
FailedAt(r, k) == InsertFailed(r) /\ Len(req[r].saved_prescriptions) = k - 1

\* C14: when the insert of the k-th record of a batch fails, the request is
\* answered with a 500, the k-1 documents inserted before it for the batch
\* are in the collection, and no record from the k-th on is inserted.
C14_NoRollback ==
    \A r \in Requests :
        \A k \in 1..MaxImages + 1 :
            FailedAt(r, k) =>
                /\ req[r].response.status_code = 500
                /\ k <= Len(req[r].prescriptions)
                /\ Requests = {r} =>
                      /\ Len(medical_records) = k - 1
                      /\ \A i \in 1..(k - 1) :
                            /\ medical_records[i]._id = req[r].saved_prescriptions[i].id.s
                            /\ medical_records[i].serialNo = PyInt(i - 1)

C14_Witness ==
    \E r \in Requests :
        /\ FailedAt(r, 2)
        /\ Len(req[r].prescriptions) = 2
        /\ Len(medical_records) = 1
        /\ medical_records[1].serialNo = PyInt(0)
        /\ medical_records[1].imagekit_url = req[r].request.fileDetails[1].url

\* C15: fetch, model call and normalization go image by image: the next
\* image is fetched only after the one before it has been extracted, and at
\* no point does the request hold the bytes of more than one image.
C15_OneImageAtATime ==
    \A r \in Requests :
        Received(r) =>
            /\ Len(req[r].fetched) <= Len(req[r].model_log) + 1
            /\ Len(req[r].image_data) <= 1

\* process_multiple_images has been called for the request.
BatchStarted(r) ==
    \/ req[r].pc \in {"process", "save"}
    \/ Answered(r) /\ Validated(r) /\ ~FetchFailed(r)

\* process_multiple_images is over for the request.
BatchEnded(r) == BatchStarted(r) /\ req[r].pc # "process"

\* process_multiple_images has returned its results for the request.
BatchGaveResults(r) ==
    BatchEnded(r) /\ Len(req[r].prescriptions) = Len(req[r].image_data)

Succeeded(r) == Answered(r) /\ req[r].response.status_code = 200

\* The document carries the position and the provenance of the i-th image
\* of the request (i from 1).
CarriesProvenance(doc, r, i) ==
    /\ doc.serialNo = PyInt(i - 1)
    /\ doc.imagekit_url = req[r].request.fileDetails[i].url
    /\ doc.imagekit_file_id = req[r].request.fileDetails[i].fileId
    /\ doc.original_filename = req[r].request.fileDetails[i].name
    /\ doc.reportImages = <<req[r].request.fileDetails[i].name>>

\* C17: on a successful upload of n images the insert has run n times, once
\* per record in input order, and the i-th document inserted carries
\* serialNo i (0-based) and the URL, file id and original filename of the
\* i-th submitted image, empty records included.
C17_OneDocumentPerImage ==
    \A r \in Requests :
        Succeeded(r) =>
            /\ Len(req[r].saved_prescriptions) = Submitted(r)
            /\ \A i \in 1..Submitted(r) :
                  req[r].saved_prescriptions[i].serialNo = PyInt(i - 1)
            /\ Requests = {r} =>
                  /\ Len(medical_records) = Submitted(r)
                  /\ \A i \in 1..Submitted(r) :
                        /\ CarriesProvenance(medical_records[i], r, i)
                        /\ medical_records[i]._id = req[r].saved_prescriptions[i].id.s

C17_Witness ==
    \E r \in Requests :
        /\ Succeeded(r)
        /\ req[r].request.fileDetails =
              <<FileDetail(UrlExe, "f2", RxPng), FileDetail(UrlJpg, "f1", RxJpg)>>
        /\ Len(medical_records) = 2
        /\ medical_records[1].patientName = PyStr("Asha")
        /\ IsEmptyRecord(medical_records[2], RxJpg)
        /\ CarriesProvenance(medical_records[2], r, 2)

----------------------------------------------------------------------------
(* Properties of the records and their owners, checked under SpecRecords *)

\* The documents the user had uploaded when the reply was computed: the
\* collection only grows, so they are the first reply.stored documents that
\* carry the user's id.
UploadedBy(user_id) ==
    {i \in 1..reply.stored : medical_records[i].user_id = user_id}

Range(seq) == {seq[i] : i \in 1..Len(seq)}

\* C18: every record the upload endpoint inserts has the uploader's id as
\* its owner: the records of the upload response carry it in userId, and
\* get_prescriptions_by_user_id called with the id of a user returns, within
\* the page, every record the user uploaded.
C18_OwnerOnEveryRecord ==
    /\ \A r \in Requests :
          Succeeded(r) =>
              \A i \in 1..Len(req[r].response.data) :
                  req[r].response.data[i].userId = PyStr(req[r].current_user)
    /\ (reply.op = "get_prescriptions_by_user_id" /\ reply.skip = 0
            /\ reply.limit = DefaultLimit)
          => \A i \in UploadedBy(reply.user_id) : medical_records[i] \in Range(reply.data)

\* C19: the listing endpoint returns to the authenticated user only records
\* that user uploaded.
C19_ListingOnlyOwnRecords ==
    reply.op = "usersMedicalData" =>
        \A i \in 1..Len(reply.data) : reply.data[i].user_id = reply.current_user

----------------------------------------------------------------------------
(* Properties of the sessions, checked under SpecSession *)

\* C20: after a successful logout with a token, every later request that
\* authenticates with the token is answered 401.
C20_LogoutInvalidatesToken ==
    (reply.op = "get_current_user" /\ reply.after_logout) => reply.status_code = 401

----------------------------------------------------------------------------
(* Properties of the medicines' quantities, checked under SpecExtract *)

\* C25: no medicine of a record that extract_from_image returns carries a
\* negative quantity: every quantity is None or an int that is not below
\* zero.
C25_NoNegativeQuantity ==
    (Returned /\ ~call.result.raised) =>
        \A i \in 1..Len(call.result.value.medicines) :
            LET quantity == call.result.value.medicines[i].quantity
            IN  \/ quantity = PyNone
                \/ quantity.k = "int" /\ quantity.n >= 0

----------------------------------------------------------------------------
(* Properties of the count of the upload response, checked under Spec *)

\* C28: in every success response of the upload endpoint, count equals the
\* number of prescriptionUrls of the request; a request accepted as
\* non-empty never yields a success response with count 0.
C28_CountEqualsUrls ==
    \A r \in Requests :
        Succeeded(r) =>
            /\ req[r].response.count = Len(req[r].request.prescriptionUrls)
            /\ req[r].response.count > 0

----------------------------------------------------------------------------
(* Properties of the records of one batch against its siblings, checked
   under Spec *)

\* The record extract_from_image gives for the i-th image of the request
\* (i from 1) from the image's own file name and the model's outcome for it.
OwnExtraction(r, i) ==
    extract_from_image(req[r].model_outcomes[i], req[r].image_data[i][2])

\* C27: the record a batch produces for image i is a function of the
\* image's file name, its index and the model's outcome for the image:
\* once the batch is over, every image whose own extraction gives a record
\* has that record, with serialNo i, at position i of the results, whatever
\* the outcomes of the other images were.
C27_RecordDependsOnOwnImage ==
    \A r \in Requests :
        BatchOver(r) =>
            \A i \in 1..Len(req[r].model_outcomes) :
                ~OwnExtraction(r, i).raised =>
                    /\ BatchGaveResults(r)
                    /\ req[r].prescriptions[i] =
                          [OwnExtraction(r, i).value EXCEPT !.serialNo = PyInt(i - 1)]

----------------------------------------------------------------------------
(* Two upload requests in flight at once *)

\* The concurrent uploads: the first is of two images by one user, the
\* second of one or two images by the same or by another user.
OneImage == <<FileDetail(UrlJpg, "f1", RxJpg)>>
TwoImages == <<FileDetail(UrlExe, "f2", RxPng), FileDetail(UrlJpg, "f1", RxJpg)>>
ConcurrentBodies ==
    (1 :> {[prescriptionUrls |-> UrlsOf(TwoImages), fileDetails |-> TwoImages]})
    @@ (2 :> {[prescriptionUrls |-> UrlsOf(fds), fileDetails |-> fds] :
                 fds \in {OneImage, TwoImages}})
ConcurrentUsers == (1 :> {"u1"}) @@ (2 :> Users)

\* The outcomes of the model call in the concurrent uploads: an object, an
\* exception that gives the empty record, the exception that leaves the
\* batch.
ConcurrentOutcomes ==
    {Returns(GoodResponse), CallRaisesWith("APIError"), CallRaisesWith("JSONDecodeError")}

\* The handler is entered for one of the concurrent uploads.
Arrive(r) ==
    /\ Receive(r)
    /\ req'[r].request \in ConcurrentBodies[r]
    /\ req'[r].current_user \in ConcurrentUsers[r]

\* One turn of the loop of process_multiple_images in a concurrent upload.
Extract(r) ==
    /\ ProcessImage(r)
    /\ req'[r].model_outcomes[Len(req'[r].model_outcomes)] \in ConcurrentOutcomes

\* Every handler runs as its own coroutine: at each await (the download,
\* the insert) and between the turns of the loops another request may run.
NextConcurrent ==
    \E r \in Uploads :
        \/ Arrive(r)
        \/ Fetch(r)
        \/ FetchDone(r)
        \/ Extract(r)
        \/ BatchReturn(r)
        \/ Save(r)
        \/ Respond(r)

SpecConcurrent == Init /\ [][NextConcurrent]_vars

----------------------------------------------------------------------------
(* Properties of concurrent uploads, checked under SpecConcurrent *)

\* The fields a record takes from the extraction of its image.
ExtractedFields == ScalarFields \cup {"medicines", "reportImages"}

\* The record is the one extracted for the i-th image of the request (i
\* from 1) at position i.
OwnRecord(record, r, i) ==
    /\ record.serialNo = PyInt(i - 1)
    /\ \A f \in ExtractedFields : record[f] = OwnExtraction(r, i).value[f]

\* The documents inserted for the i-th saved record of the request.
DocumentsOf(r, i) ==
    {k \in 1..Len(medical_records) :
        medical_records[k]._id = req[r].saved_prescriptions[i].id.s}

\* C26: under every interleaving of two upload requests, each success
\* response holds exactly the records of the request's own images, in
\* order, with serialNo 0..n-1; every record a request has saved is one
\* document of the collection that carries the file name, the provenance
\* and the user of that request; and every document of the collection was
\* inserted for exactly one record of one request.
C26_NoInterference ==
    /\ \A r \in Uploads :
          /\ Succeeded(r) =>
                /\ Len(req[r].response.data) = Submitted(r)
                /\ \A i \in 1..Submitted(r) : OwnRecord(req[r].response.data[i], r, i)
          /\ Received(r) =>
                \A i \in 1..Len(req[r].saved_prescriptions) :
                    /\ Cardinality(DocumentsOf(r, i)) = 1
                    /\ \A k \in DocumentsOf(r, i) :
                          /\ OwnRecord(medical_records[k], r, i)
                          /\ CarriesProvenance(medical_records[k], r, i)
                          /\ medical_records[k].user_id = req[r].current_user
    /\ \A k \in 1..Len(medical_records) :
          Cardinality({ri \in Uploads \X (1..MaxImages) :
                          /\ Received(ri[1])
                          /\ ri[2] <= Len(req[ri[1]].saved_prescriptions)
                          /\ k \in DocumentsOf(ri[1], ri[2])}) = 1

\* Both requests succeeded with two images each, their inserts interleaved,
\* one with a filled and one with an empty record at the same position.
C26_Witness ==
    /\ Succeeded(1) /\ Succeeded(2)
    /\ req[1].current_user # req[2].current_user
    /\ Submitted(1) = 2 /\ Submitted(2) = 2
    /\ DocumentsOf(1, 1) = {1} /\ DocumentsOf(2, 1) = {2}
    /\ DocumentsOf(1, 2) = {3} /\ DocumentsOf(2, 2) = {4}
    /\ req[1].response.data[1].patientName = PyStr("Asha")
    /\ IsEmptyRecord(req[2].response.data[1], RxPng)

----------------------------------------------------------------------------
(* Properties of the registration, checked under SpecRegister *)

\* The registration has entered the handler in this step.
Entered(g) == reg[g].pc = "idle" /\ reg'[g].pc # "idle"

\* C21: a registration whose email a stored user holds when the handler
\* looks it up is answered 400 with "User with this email already exists",
\* and the step leaves the users collection as it was.
C21_DuplicateEmailRejected ==
    [][\A g \in Registrations :
          (Entered(g) /\ get_user_by_email(reg'[g].user_data.email) # PyNone) =>
              /\ reg'[g].pc = "done"
              /\ reg'[g].response =
                    HTTPException(400, "User with this email already exists")
              /\ users' = users]_vars

\* A second registration with the email of the user the first created was
\* answered 400, the store holding that one user.
C21_Witness ==
    /\ reg[1].pc = "done" /\ reg[1].response.status_code = 201
    /\ reg[2].pc = "done" /\ reg[2].response.status_code = 400
    /\ reg[2].response.detail = "User with this email already exists"
    /\ reg[2].user_data.email = reg[1].user_data.email
    /\ reg[2].user_data.mobileNumber # reg[1].user_data.mobileNumber
    /\ Len(users) = 1 /\ users[1].email = reg[1].user_data.email
    /\ users[1].mobileNumber = reg[1].user_data.mobileNumber

\* The registration was answered 201: it created a user.
Created(g) == reg[g].pc = "done" /\ reg[g].response.status_code = 201

\* C29: under every interleaving of the steps of concurrent registrations
\* the users collection never holds two users with the same email or two
\* with the same mobile number, and of the registrations with one email at
\* most one creates a user.
C29_UniqueEmailAndMobile ==
    /\ \A i, j \in 1..Len(users) :
          i # j => /\ users[i].email # users[j].email
                   /\ users[i].mobileNumber # users[j].mobileNumber
    /\ \A g, h \in Registrations :
          (g # h /\ Created(g) /\ Created(h)) =>
              reg[g].user_data.email # reg[h].user_data.email
    /\ Cardinality({g \in Registrations : Created(g)}) = Len(users)

\* Two registrations with one email both passed the two lookups before
\* either inserted; the first has created its user and the second is at
\* its insert.
C29_Witness ==
    /\ Created(1)
    /\ reg[2].pc = "insert"
    /\ reg[2].user_data.email = reg[1].user_data.email
    /\ reg[2].user_data.mobileNumber # reg[1].user_data.mobileNumber
    /\ Len(users) = 1

\* The email is that of a stored user and the password is the one the user
\* registered with.
Correct(login_data) ==
    /\ \E i \in 1..Len(users) : users[i].email = login_data.email
    /\ login_data.password = PasswordOf[login_data.email]

\* C22: a login with an unknown email and a login with a known email and a
\* wrong password are both answered 401 with the one message "Invalid email
\* or password"; the answer carries no token and the step creates no
\* session.
C22_FailedLoginSame401 ==
    [][(Login /\ ~Correct(reply'.login_data)) =>
          /\ reply'.status_code = 401
          /\ reply'.detail = "Invalid email or password"
          /\ "data" \notin DOMAIN reply'
          /\ user_sessions' = user_sessions]_vars

\* A login with the email of a user and the password of another was answered
\* 401, the one session of an earlier login being all the store holds.
C22_Witness ==
    /\ reply.op = "login"
    /\ reply.login_data = [email |-> "asha@x.org", password |-> "Secret#2"]
    /\ reply.status_code = 401
    /\ reply.detail = "Invalid email or password"
    /\ Len(user_sessions) = 1
    /\ user_sessions[1].userId = "u2"

\* C23: every login with the email of a user and the user's password is
\* answered 200 with a token and the user's data, and the step adds exactly
\* one session, whose jwtToken is the token of the answer, whose userId is
\* the user and which has no logout time.
C23_CorrectLoginCreatesSession ==
    [][(Login /\ Correct(reply'.login_data)) =>
          /\ reply'.status_code = 200
          /\ reply'.data.user.email = reply'.login_data.email
          /\ Len(user_sessions') = Len(user_sessions) + 1
          /\ SubSeq(user_sessions', 1, Len(user_sessions)) = user_sessions
          /\ LET session == user_sessions'[Len(user_sessions')]
             IN  /\ session.jwtToken = reply'.data.token
                 /\ session.userId = reply'.data.user.id
                 /\ "logoutTime" \notin DOMAIN session]_vars

\* The session carries a logout time.
HasLogoutTime(session) ==
    "logoutTime" \in DOMAIN session /\ session.logoutTime # PyNone

\* get_active_session returns nothing for the token of a session that
\* carries a logout time.
NoneActiveAfterLogout ==
    \A i \in 1..Len(user_sessions) :
        HasLogoutTime(user_sessions[i]) =>
            get_active_session(user_sessions[i].jwtToken) = PyNone

\* C30: the logout time of a session is set at most once: a session that
\* carries one is left as it is by every step, a logout that is answered
\* 200 says "Logout successful" and leaves the sessions of its token with a
\* logout time, and get_active_session returns no session for the token of
\* a session that carries a logout time.
C30_LogoutTimeSetOnce ==
    [][/\ \A i \in 1..Len(user_sessions) :
              HasLogoutTime(user_sessions[i]) => user_sessions'[i] = user_sessions[i]
       /\ (Logout /\ reply'.status_code = 200) =>
              /\ reply'.message = "Logout successful"
              /\ \A i \in 1..Len(user_sessions') :
                    user_sessions'[i].jwtToken = reply'.token =>
                        HasLogoutTime(user_sessions'[i])
       /\ NoneActiveAfterLogout']_vars

\* A second logout with a token, made after the clock went on, was answered
\* "Logout successful", the session still carrying the time of the first.
C30_Witness ==
    /\ reply.op = "logout" /\ reply.after_logout
    /\ reply.status_code = 200 /\ reply.message = "Logout successful"
    /\ \E i \in 1..Len(user_sessions) :
          /\ user_sessions[i].jwtToken = reply.token
          /\ HasLogoutTime(user_sessions[i])
          /\ user_sessions[i].logoutTime.tick = 0
    /\ clock = 1

----------------------------------------------------------------------------
(* Properties of the tokens, checked under SpecToken *)

\* verify_token was called on a token create_access_token issued, before
\* the second of its exp had passed.
VerifiedUnexpired ==
    /\ reply.op = "verify_token"
    /\ "data" \in DOMAIN reply
    /\ reply.now <= reply.token.payload.exp.n

\* verify_token was called on a string the server's key did not sign.
VerifiedForeign == reply.op = "verify_token" /\ "data" \notin DOMAIN reply

\* verify_token returned a payload with the sub and the email of the
\* mapping the token was issued for.
SameSubAndEmail ==
    /\ reply.payload # PyNone
    /\ reply.payload.sub = reply.data.sub
    /\ reply.payload.email = reply.data.email

====
